---- MODULE Spec2Model ----
(***************************************************************************)
(* Model of the Telegram <-> Copilot bridge (dialogue-research).           *)
(*                                                                         *)
(*   SpecGen  : CopilotClient.generateReply (retry loop, budget, usage     *)
(*              log) driven by an arbitrary completion endpoint.           *)
(*   SpecRate : enforceCopilotRateLimit called sequentially for several    *)
(*              (chatId, topic) threads.                                   *)
(*   Spec     : the daemon's polling loop (main) with the handlers of     *)
(*              callback queries, commands and free-form messages, the    *)
(*              rate limiter, generateReply and the session store.        *)
(*   SpecLoop : main() alone, each handler one awaited call that returns  *)
(*              or throws, with restarts of the process.                  *)
(*   SpecLoopMcp : the running loop together with the bridge.set_offset   *)
(*              tool of the MCP server working on the same store.         *)
(*   FairSpecLoop : the running loop under the fairness of while (true).  *)
(***************************************************************************)
EXTENDS Integers, Sequences, FiniteSets, TLC

(* ------------------------------------------------------------------ *)
(* Bounds of the model                                                  *)
(* ------------------------------------------------------------------ *)
\* largest COPILOT_MAX_RETRIES explored (the program accepts 1..8)
MaxRetriesBound == 3
\* value of Date.now() when the model starts (any epoch time far above the intervals)
StartClock == 100000
\* number of enforceCopilotRateLimit calls explored in SpecRate
MaxRateCalls == 3

VARIABLES
  now,              \* Date.now()
  \* ---- the completion endpoint and the CopilotClient fields (part_008:46-91)
  endpoint,         \* the answers and delays the endpoint may give
  apiKeySource,     \* 'copilot_api_key' | 'github_token' | 'none'
  maxRetries,
  retryBaseMs,
  timeoutMs,
  maxTotalWaitMs,
  logWritable,      \* fs.appendFileSync(this.usageLogPath, ...) succeeds
  usageLog,         \* the usage log file: sequence of UsageLogRecord
  \* ---- locals of one generateReply call (part_008:122-248)
  grPc,             \* "idle" | "loop" | "fetch" | "sleep" | "fail" | "returned" | "thrown"
  attempt,
  startedAt,
  lastError,
  grOutcome,        \* how the call ended: "none" | "text" | "credential error" |
                    \* "generation failed" | "log write failed"
  \* ---- observations of one generateReply call
  attemptsMade,     \* number of requests sent to the endpoint by this call
  lastResponse,     \* the endpoint's answer to the latest request
  allRetryable,     \* every answer so far was a timeout, 5xx, network error or empty content
  sleepLog,         \* the backoff sleeps of this call, in order
  logAtCall,        \* Len(usageLog) when the call started
  calls,            \* number of generateReply calls started
  \* ---- rate limiter (daemon.ts:37, 779-805)
  minIntervalEnv,   \* process.env.COPILOT_MIN_INTERVAL_MS ("" when unset)
  copilotLastCallAt,\* Map<string, number>
  rlPc,             \* "idle" | "sleep"
  rlThread,         \* <<chatId, topic>> of the call in progress
  rlCalledAt,       \* Date.now() read by the call in progress
  rlWaitMs,         \* waitMs computed by the call in progress
  rlLog,            \* finished calls, in order: [thread, calledAt, waitMs, returnedAt, threw]
  \* ---- Telegram (the chat transport)
  inbox,            \* the updates sent to the bot; the update at position i has update_id i
  arrived,          \* number of updates the server has received so far
  serverOffset,     \* updates below it are confirmed and forgotten by the server
  unreachable,      \* chats to which sendMessage / answerCallbackQuery fail
  \* ---- SessionStore and ModelCatalog
  storedOffset,     \* the persisted offset
  messages,         \* the message table, in insertion order
  selectedModel,    \* topic state 'selected model' per thread ("" when unset)
  devVibe,          \* threads whose dev_vibe_mode is '1'
  devProject,       \* threads that have a current project
  catalog,          \* ids of the model catalog
  topicState,       \* the other topic state keys: <<chatId, topic, key>> -> value
  \* ---- main() of the daemon (daemon.ts:3014-3060)
  mainPc,           \* "fetch" | "loop" | "handler" | "sleep" | "exited"
  offset,
  updates,          \* the fetched batch (update ids)
  idx,              \* position of the for loop in the batch
  hPc,              \* position of the running handler
  hPath,            \* free-form path taken by the running handler: "default" | "vibe" | ""
  hModel,           \* the model id the running handler has resolved for the gateway
  \* ---- observations of the daemon
  polls,            \* getUpdates calls made
  restarts,         \* times the process was restarted
  handledSet,       \* ids of the updates whose handler has run to completion
  iterDone,         \* ids whose handler completed in the current loop iteration
  iterThrew,        \* an exception was raised in the current loop iteration
  iterLogged,       \* the catch block logged in the current loop iteration
  storedAtFetch,    \* storedOffset when the current iteration fetched
  msgsAtGen,        \* the message table when the handler invoked generateReply
  hTrace,           \* the store and gateway calls of the latest handler run, in order
  hSent,            \* a message reached the chat in the latest handler run
  lastSet,          \* the latest setOffset call: who made it, and was its value lower
  toolError,        \* the error the latest MCP tool call threw, "" when it returned
  toolResult,       \* what the latest session tool call of the MCP server was and returned
  \* ---- parseTelegramText called on its own
  parseIn,          \* the arguments of the call: [raw, topic, agent, modelId]
  parseOut,         \* the ParsedMessage returned, NotParsed before the call
  \* ---- the file tree of the dev workspace (daemon.ts:847-878, 998-1006)
  files,            \* devWorkspace.listProjectFiles(project.path, relativePath)
  treeShown,        \* sendDevFileTree has run
  treePage,         \* pagination.page of the page shown
  treeEntries,      \* the DevTreeEntry list of the page shown
  devFileTreeIndex, \* topic state DEV_FILE_TREE_INDEX_KEY: a JSON text, or undefined
  fileReply,        \* the latest '#fileN' lookup: [index, filePath], NoFileReply before
  \* ---- the inline keyboards of a chat (daemon.ts:727-773, 2385-2390)
  keyboards,        \* the keyboard messages sent, by message id: [kind, topic]
  callbackTopic,    \* the latest callback query: [messageId, topic it was handled in]
  \* ---- the input of the MCP server (mcpServer.ts:193-231)
  stream,           \* what the client writes to stdin, in code units
  readPos,          \* code units of the stream delivered in 'data' events so far
  inputBuffer,
  pending,          \* bodies of the requests whose handleRequest is awaited
  handled,          \* bodies passed to handleRequest, in call order
  written           \* bodies of the requests whose response was written, in order

clientVars == <<endpoint, apiKeySource, maxRetries, retryBaseMs, timeoutMs, maxTotalWaitMs,
                logWritable>>
grVars == <<usageLog, grPc, attempt, startedAt, lastError, grOutcome, attemptsMade,
            lastResponse, allRetryable, sleepLog, logAtCall, calls>>
rlVars == <<minIntervalEnv, copilotLastCallAt, rlPc, rlThread, rlCalledAt, rlWaitMs, rlLog>>
envVars == <<inbox, arrived, serverOffset, unreachable>>
storeVars == <<storedOffset, messages, selectedModel, devVibe, devProject, catalog, topicState>>
mainVars == <<mainPc, offset, updates, idx, hPc, hPath, hModel>>
obsVars == <<polls, restarts, handledSet, iterDone, iterThrew, iterLogged, storedAtFetch,
             msgsAtGen, hTrace, hSent, lastSet, toolError, toolResult>>
dmVars == <<envVars, storeVars, mainVars, obsVars>>
parseVars == <<parseIn, parseOut>>
treeVars == <<files, treeShown, treePage, treeEntries, devFileTreeIndex, fileReply>>
kbVars == <<keyboards, callbackTopic>>
frameVars == <<stream, readPos, inputBuffer, pending, handled, written>>
vars == <<now, clientVars, grVars, rlVars, dmVars, parseVars, treeVars, kbVars, frameVars>>

Max(a, b) == IF a >= b THEN a ELSE b
Min(a, b) == IF a <= b THEN a ELSE b

RECURSIVE Pow2(_)
Pow2(n) == IF n <= 0 THEN 1 ELSE 2 * Pow2(n - 1)

(* ------------------------------------------------------------------ *)
(* Completion endpoint: what one request can come back with            *)
(* ------------------------------------------------------------------ *)
\* substrings of a lower-cased error body that the client looks for
Bodies == { {}, {"models", "permission"}, {"permission"},
            {"unknown_model"}, {"unknown model"}, {"invalid_request"}, {"invalid request"},
            {"context_length"}, {"max context"}, {"non-retryable"} }
ErrorStatuses == {400, 401, 403, 404, 422, 429, 500}
NoUsage == -1
\* kind: "http" (a response arrived), "timeout" (the AbortController fired),
\* "network" (fetch rejected).  content = length of choices[0].message.content
\* after trim(); usage = usage.total_tokens or NoUsage.
Responses ==
  { [kind |-> "timeout", status |-> 0, body |-> {}, content |-> 0, usage |-> NoUsage],
    [kind |-> "network", status |-> 0, body |-> {}, content |-> 0, usage |-> NoUsage] }
  \cup { [kind |-> "http", status |-> 200, body |-> {}, content |-> c, usage |-> u] :
           c \in {0, 9}, u \in {NoUsage, 7} }
  \cup { [kind |-> "http", status |-> s, body |-> b, content |-> 0, usage |-> NoUsage] :
           s \in ErrorStatuses, b \in Bodies }
NoResponse == [kind |-> "none", status |-> 0, body |-> {}, content |-> 0, usage |-> NoUsage]

\* time a request that gets an answer takes, and time reading the body takes
Latencies == {0, 800}
BodyReadMs == {0, 3000}

(* ------------------------------------------------------------------ *)
(* CopilotClient.generateReply                                          *)
(* ------------------------------------------------------------------ *)
NoError == [msg |-> "", status |-> 0, body |-> {}]
MkError(m) == [msg |-> m, status |-> 0, body |-> {}]

isEnabled == apiKeySource # "none"

\* asNonRetryableAuthError(status, body): an Error or null (NoError)
asNonRetryableAuthError(status, body) ==
  IF status # 401 /\ status # 403 THEN NoError
  ELSE IF "models" \in body /\ "permission" \in body
       THEN MkError("Copilot completion failed: missing models permission")
       ELSE NoError

\* asNonRetryableRequestError(status, body, modelId): an Error or null (NoError)
asNonRetryableRequestError(status, body) ==
  IF status = 400 \/ status = 404 \/ status = 422
  THEN IF "unknown_model" \in body \/ "unknown model" \in body
       THEN MkError("Copilot completion non-retryable: unknown model")
       ELSE IF "invalid_request" \in body \/ "invalid request" \in body
       THEN MkError("Copilot completion non-retryable: invalid request")
       ELSE IF "context_length" \in body \/ "max context" \in body
       THEN MkError("Copilot completion non-retryable: context length exceeded")
       ELSE NoError
  ELSE NoError

\* the error thrown inside the try block for a response that is not a success
ThrownFor(r) ==
  IF r.kind = "timeout" THEN MkError("This operation was aborted")
  ELSE IF r.kind = "network" THEN MkError("fetch failed")
  ELSE IF r.status # 200
  THEN IF asNonRetryableAuthError(r.status, r.body) # NoError
       THEN asNonRetryableAuthError(r.status, r.body)
       ELSE IF asNonRetryableRequestError(r.status, r.body) # NoError
       THEN asNonRetryableRequestError(r.status, r.body)
       ELSE [msg |-> "Copilot completion failed: status body", status |-> r.status, body |-> r.body]
  ELSE MkError("Copilot completion returned empty content.")

IsSuccess(r) == r.kind = "http" /\ r.status = 200 /\ r.content > 0

\* a mutant of IsNonRetryableMessage: the catch block never short-circuits
IsNonRetryableMessageNever(err) == FALSE

\* /缺少 models 权限|non-retryable/i.test(error.message); the message of the
\* generic failure embeds the response body
IsNonRetryableMessage(err) ==
  \/ err.msg = "Copilot completion failed: missing models permission"
  \/ err.msg \in { "Copilot completion non-retryable: unknown model",
                   "Copilot completion non-retryable: invalid request",
                   "Copilot completion non-retryable: context length exceeded" }
  \/ "non-retryable" \in err.body

\* a mutant of NextAttempt: the loop forgets to count the attempt
NextAttemptStuck(a) == a

\* the for loop's attempt += 1
NextAttempt(a) == a + 1

\* a mutant of NextBackoff: the same interval after every failure
NextBackoffConstant(a) == retryBaseMs

\* nextBackoff = retryBaseMs * 2 ** (attempt - 1)
NextBackoff(a) == retryBaseMs * Pow2(a - 1)

\* estimateTokens(text), on the length of the trimmed text
estimateTokens(len) == IF len = 0 THEN 0 ELSE Max(1, (len + 3) \div 4)

\* length of the prompt `${system}\n\n${user}` of the calls explored
PromptLen == 40

\* resolveUsage(...).totalTokens
resolveUsage(r) ==
  IF r.usage # NoUsage THEN r.usage
  ELSE estimateTokens(PromptLen) + estimateTokens(r.content)

\* a mutant of UsageRecord: the prompt is counted whatever the outcome
UsageRecordCountingPrompt(st, att, tokens, err) ==
  [status |-> st, attempt |-> att, totalTokens |-> tokens + estimateTokens(PromptLen),
   error |-> err]

\* the usage record written by writeUsageLog
UsageRecord(st, att, tokens, err) ==
  [status |-> st, attempt |-> att, totalTokens |-> tokens, error |-> err]

\* generateReply is entered: the credential check and the loop's initialisation
GrBegin ==
  /\ calls' = calls + 1
  /\ attemptsMade' = 0
  /\ lastResponse' = NoResponse
  /\ allRetryable' = TRUE
  /\ sleepLog' = <<>>
  /\ logAtCall' = Len(usageLog)
  /\ IF ~isEnabled
     THEN /\ grPc' = "thrown"
          /\ grOutcome' = "credential error"
          /\ UNCHANGED <<attempt, startedAt, lastError>>
     ELSE /\ grPc' = "loop"
          /\ grOutcome' = "none"
          /\ startedAt' = now
          /\ lastError' = MkError("unknown error")
          /\ attempt' = 1
  /\ UNCHANGED <<clientVars, parseVars, treeVars, kbVars, frameVars, usageLog>>

\* a caller invokes generateReply
GrCall ==
  /\ grPc = "idle"
  /\ GrBegin
  /\ UNCHANGED <<now, rlVars, dmVars>>

\* a mutant of BudgetExhausted: the attempt is made while any budget is left
BudgetExhaustedAtZero(remainingBudget) == remainingBudget <= 0

\* a mutant of BudgetExhausted: a margin of 3000 ms
BudgetExhaustedEarly(remainingBudget) == remainingBudget <= 3000

\* remainingBudget <= 1500, the safety margin tested before an attempt
BudgetExhausted(remainingBudget) == remainingBudget <= 1500

\* the loop condition and the budget check before an attempt
GrLoopTest ==
  /\ grPc = "loop"
  /\ IF attempt > maxRetries
     THEN grPc' = "fail" /\ UNCHANGED lastError
     ELSE IF BudgetExhausted(maxTotalWaitMs - (now - startedAt))
     THEN grPc' = "fail" /\ lastError' = MkError("request timeout budget exceeded")
     ELSE grPc' = "fetch" /\ UNCHANGED lastError
  /\ UNCHANGED <<now, clientVars, parseVars, treeVars, kbVars, frameVars, usageLog, attempt, startedAt, grOutcome, attemptsMade,
                 lastResponse, allRetryable, sleepLog, logAtCall, calls, rlVars, dmVars>>

\* timeout, 5xx, network error, empty content
IsTransient(r) ==
  \/ r.kind \in {"timeout", "network"}
  \/ r.kind = "http" /\ r.status >= 500
  \/ r.kind = "http" /\ r.status = 200 /\ r.content = 0

\* the error appendFileSync throws inside writeUsageLog
WriteError == MkError("ENOSPC: no space left on device, write")

\* the catch block, given the time the attempt ended at
GrCatch(err, endedAt) ==
  /\ lastError' = err
  /\ IF IsNonRetryableMessage(err) THEN grPc' = "fail" /\ UNCHANGED sleepLog
     ELSE IF attempt >= maxRetries THEN grPc' = "fail" /\ UNCHANGED sleepLog
     ELSE IF (endedAt - startedAt) + NextBackoff(attempt) >= maxTotalWaitMs
     THEN grPc' = "fail" /\ UNCHANGED sleepLog
     ELSE grPc' = "sleep" /\ sleepLog' = Append(sleepLog, NextBackoff(attempt))
  /\ UNCHANGED <<usageLog, grOutcome>>

\* one attempt: the request, its answer, and the success path or the catch block
GrFetch ==
  /\ grPc = "fetch"
  /\ \E r \in endpoint.answers, lat \in endpoint.latencies, rd \in endpoint.bodyReads :
       LET remainingBudget == maxTotalWaitMs - (now - startedAt)
           abortAt == Min(timeoutMs, remainingBudget)
           took == IF r.kind = "timeout" THEN abortAt
                   ELSE IF r.kind = "network" THEN lat
                   ELSE lat + rd
       IN /\ r.kind # "timeout" => lat < abortAt
          /\ r.kind # "http" => rd = 0
          /\ r.kind = "timeout" => lat = 0
          /\ now' = now + took
          /\ attemptsMade' = attemptsMade + 1
          /\ lastResponse' = r
          /\ allRetryable' = (allRetryable /\ IsTransient(r))
          /\ IF IsSuccess(r) /\ logWritable
             THEN /\ usageLog' = Append(usageLog,
                        UsageRecord("success", attempt, resolveUsage(r), NoError))
                  /\ grOutcome' = "text"
                  /\ grPc' = "returned"
                  /\ UNCHANGED <<lastError, sleepLog>>
             ELSE IF IsSuccess(r)
             THEN GrCatch(WriteError, now + took)
             ELSE GrCatch(ThrownFor(r), now + took)
  /\ UNCHANGED <<clientVars, parseVars, treeVars, kbVars, frameVars, attempt, startedAt, logAtCall, calls, rlVars, dmVars>>

\* await this.sleep(nextBackoff), then the loop's increment
GrSleep ==
  /\ grPc = "sleep"
  /\ now' = now + NextBackoff(attempt)
  /\ attempt' = NextAttempt(attempt)
  /\ grPc' = "loop"
  /\ UNCHANGED <<clientVars, parseVars, treeVars, kbVars, frameVars, usageLog, startedAt, lastError, grOutcome, attemptsMade,
                 lastResponse, allRetryable, sleepLog, logAtCall, calls, rlVars, dmVars>>

\* after the loop: the failure record and the throw
GrFail ==
  /\ grPc = "fail"
  /\ IF logWritable
     THEN /\ usageLog' = Append(usageLog, UsageRecord("failure", maxRetries, 0, lastError))
          /\ grOutcome' = "generation failed"
     ELSE /\ grOutcome' = "log write failed"
          /\ UNCHANGED usageLog
  /\ grPc' = "thrown"
  /\ UNCHANGED <<now, clientVars, parseVars, treeVars, kbVars, frameVars, attempt, startedAt, lastError, attemptsMade,
                 lastResponse, allRetryable, sleepLog, logAtCall, calls, rlVars, dmVars>>

GrStep == GrLoopTest \/ GrFetch \/ GrSleep \/ GrFail

\* the answers the endpoint gives in the daemon's runs: a reply, a transient
\* failure and a permission failure
DaemonAnswers ==
  { [kind |-> "http", status |-> 200, body |-> {}, content |-> 9, usage |-> 7],
    [kind |-> "http", status |-> 500, body |-> {}, content |-> 0, usage |-> NoUsage],
    [kind |-> "http", status |-> 403, body |-> {"models", "permission"}, content |-> 0,
     usage |-> NoUsage] }

NoSet == [by |-> "", lower |-> FALSE]

\* no session tool has been called
NoToolResult == [tool |-> "", chatId |-> 0, topic |-> "", limit |-> 0, messages |-> <<>>]

\* parseTelegramText has not been called
NotParsed == [command |-> "not parsed"]
InitParseIdle ==
  /\ parseIn = [raw |-> "", topic |-> "", agent |-> "", modelId |-> ""]
  /\ parseOut = NotParsed

\* a JavaScript string value that may be undefined; its text is a sequence of characters
UndefinedText == [defined |-> FALSE, chars |-> <<>>]
Text(chars) == [defined |-> TRUE, chars |-> chars]

\* no '#fileN' reply has been looked up
NoFileReply == [index |-> -1, filePath |-> UndefinedText]

\* no file tree has been opened
InitTreeIdle ==
  /\ files = <<>>
  /\ treeShown = FALSE
  /\ treePage = 0
  /\ treeEntries = <<>>
  /\ devFileTreeIndex = UndefinedText
  /\ fileReply = NoFileReply

\* no keyboard has been sent and no callback query handled
NoCallback == [messageId |-> 0, topic |-> ""]
InitKbIdle ==
  /\ keyboards = <<>>
  /\ callbackTopic = NoCallback

\* the MCP server reads nothing
InitFrameIdle ==
  /\ stream = <<>>
  /\ readPos = 0
  /\ inputBuffer = <<>>
  /\ pending = <<>>
  /\ handled = <<>>
  /\ written = <<>>

\* the daemon is not running (the specifications of single components)
InitDaemonIdle ==
  /\ inbox = <<>>
  /\ arrived = 0
  /\ serverOffset = 0
  /\ unreachable = {}
  /\ storedOffset = 0
  /\ messages = <<>>
  /\ selectedModel = << >>
  /\ devVibe = {}
  /\ devProject = {}
  /\ catalog = {}
  /\ topicState = << >>
  /\ mainPc = "exited"
  /\ offset = 0
  /\ updates = <<>>
  /\ idx = 1
  /\ hPc = ""
  /\ hPath = ""
  /\ hModel = ""
  /\ polls = 0
  /\ restarts = 0
  /\ handledSet = {}
  /\ iterDone = {}
  /\ iterThrew = FALSE
  /\ iterLogged = FALSE
  /\ storedAtFetch = 0
  /\ msgsAtGen = <<>>
  /\ hTrace = <<>>
  /\ hSent = FALSE
  /\ lastSet = NoSet
  /\ toolError = ""
  /\ toolResult = NoToolResult

RetrySettings == { <<400, 1000, 5000>>, <<2000, 1000, 5000>>, <<400, 25000, 70000>> }

InitRateIdle ==
  /\ copilotLastCallAt = << >>
  /\ rlPc = "idle"
  /\ rlThread = <<0, "">>
  /\ rlCalledAt = 0
  /\ rlWaitMs = 0
  /\ rlLog = <<>>

InitGrIdle ==
  /\ grPc = "idle"
  /\ attempt = 0
  /\ startedAt = 0
  /\ lastError = NoError
  /\ grOutcome = "none"
  /\ attemptsMade = 0
  /\ lastResponse = NoResponse
  /\ allRetryable = TRUE
  /\ sleepLog = <<>>
  /\ logAtCall = 0
  /\ calls = 0

InitGen ==
  /\ now = StartClock
  /\ apiKeySource \in {"github_token", "none"}
  /\ maxRetries \in 1..MaxRetriesBound
  /\ \E s \in RetrySettings :
       retryBaseMs = s[1] /\ timeoutMs = s[2] /\ maxTotalWaitMs = s[3]
  /\ endpoint = [answers |-> Responses, latencies |-> Latencies, bodyReads |-> BodyReadMs]
  /\ logWritable = TRUE
  /\ usageLog = <<UsageRecord("success", 1, 7, NoError)>>
  /\ InitGrIdle
  /\ minIntervalEnv = ""
  /\ InitRateIdle
  /\ InitDaemonIdle
  /\ InitParseIdle
  /\ InitTreeIdle
  /\ InitKbIdle
  /\ InitFrameIdle

\* generateReply called on its own, with a usage log file that can or cannot be written
InitGenLog ==
  /\ now = StartClock
  /\ apiKeySource \in {"github_token", "none"}
  /\ maxRetries \in 1..MaxRetriesBound
  /\ \E s \in RetrySettings :
       retryBaseMs = s[1] /\ timeoutMs = s[2] /\ maxTotalWaitMs = s[3]
  /\ endpoint = [answers |-> Responses, latencies |-> Latencies, bodyReads |-> BodyReadMs]
  /\ logWritable \in BOOLEAN
  /\ usageLog = <<UsageRecord("success", 1, 7, NoError)>>
  /\ InitGrIdle
  /\ minIntervalEnv = ""
  /\ InitRateIdle
  /\ InitDaemonIdle
  /\ InitParseIdle
  /\ InitTreeIdle
  /\ InitKbIdle
  /\ InitFrameIdle

NextGen == GrCall \/ GrLoopTest \/ GrFetch \/ GrSleep \/ GrFail

SpecGen == InitGen /\ [][NextGen]_vars

SpecGenLog == InitGenLog /\ [][NextGen]_vars

(* ------------------------------------------------------------------ *)
(* Rate limiter: enforceCopilotRateLimit                                *)
(* ------------------------------------------------------------------ *)
\* Number(raw) for the values of COPILOT_MIN_INTERVAL_MS explored; NotANumber is NaN
NotANumber == 0 - 1000000
NumberOf(raw) ==
  CASE raw = "0" -> 0
    [] raw = "500" -> 500
    [] raw = "1200" -> 1200
    [] raw = "-5" -> 0 - 5
    [] OTHER -> NotANumber

\* getCopilotMinIntervalMs throws for this value of the variable
MinIntervalInvalid(raw) ==
  raw # "" /\ (NumberOf(raw) = NotANumber \/ NumberOf(raw) < 0)

\* getCopilotMinIntervalMs(), where it does not throw
getCopilotMinIntervalMs(raw) == IF raw = "" THEN 1200 ELSE NumberOf(raw)

\* a mutant of RateKey: the key leaves the topic out
RateKeyChatOnly(chatId, topic) == ToString(chatId)

\* const key = `${chatId}:${topic}`
RateKey(chatId, topic) == ToString(chatId) \o ":" \o topic

\* copilotLastCallAt.get(key) ?? 0
LastCallOf(key) == IF key \in DOMAIN copilotLastCallAt THEN copilotLastCallAt[key] ELSE 0

\* copilotLastCallAt.set(key, t)
MapSet(m, key, t) == [k \in DOMAIN m \cup {key} |-> IF k = key THEN t ELSE m[k]]

\* a mutant of StampAfterWait: the time read before the sleep is recorded
StampBeforeWait(calledAt, returnedAt) == calledAt

\* copilotLastCallAt.set(key, Date.now()): the clock is read again after the sleep
StampAfterWait(calledAt, returnedAt) == returnedAt

RateThreads == { <<1, "main">>, <<1, "2:main">>, <<12, "main">> }
\* time that passes between two calls, and by which a timer fires late
IdleMs == {0, 300, 1200}
TimerLagMs == {0, 7}

RlEntry(thread, calledAt, waitMs, returnedAt, threw) ==
  [thread |-> thread, calledAt |-> calledAt, waitMs |-> waitMs,
   returnedAt |-> returnedAt, threw |-> threw]

\* enforceCopilotRateLimit(chatId, topic), called at time t, up to its return or its sleep
RlEnter(chatId, topic, t) ==
  IF MinIntervalInvalid(minIntervalEnv)
  THEN /\ rlLog' = Append(rlLog, RlEntry(<<chatId, topic>>, t, 0, t, TRUE))
       /\ UNCHANGED <<copilotLastCallAt, rlPc, rlThread, rlCalledAt, rlWaitMs>>
  ELSE LET minInterval == getCopilotMinIntervalMs(minIntervalEnv)
           key == RateKey(chatId, topic)
           waitMs == minInterval - (t - LastCallOf(key))
       IN IF minInterval = 0
          THEN /\ rlLog' = Append(rlLog, RlEntry(<<chatId, topic>>, t, 0, t, FALSE))
               /\ UNCHANGED <<copilotLastCallAt, rlPc, rlThread, rlCalledAt, rlWaitMs>>
          ELSE IF waitMs > 0
          THEN /\ rlPc' = "sleep"
               /\ rlThread' = <<chatId, topic>>
               /\ rlCalledAt' = t
               /\ rlWaitMs' = waitMs
               /\ UNCHANGED <<copilotLastCallAt, rlLog>>
          ELSE /\ copilotLastCallAt' = MapSet(copilotLastCallAt, key, StampAfterWait(t, t))
               /\ rlLog' = Append(rlLog, RlEntry(<<chatId, topic>>, t, waitMs, t, FALSE))
               /\ UNCHANGED <<rlPc, rlThread, rlCalledAt, rlWaitMs>>

\* some time after the previous call returned, the next call is made
RlCall(chatId, topic) ==
  /\ rlPc = "idle"
  /\ Len(rlLog) < MaxRateCalls
  /\ \E d \in IdleMs :
       /\ now' = now + d
       /\ RlEnter(chatId, topic, now + d)
  /\ UNCHANGED <<minIntervalEnv, clientVars, parseVars, treeVars, kbVars, frameVars, grVars, dmVars>>

\* await sleep(waitMs) ends, the call stamps the map and returns
RlWake ==
  /\ rlPc = "sleep"
  /\ \E lag \in TimerLagMs :
       /\ now' = rlCalledAt + rlWaitMs + lag
       /\ copilotLastCallAt' = MapSet(copilotLastCallAt, RateKey(rlThread[1], rlThread[2]),
                                      StampAfterWait(rlCalledAt, now'))
       /\ rlLog' = Append(rlLog, RlEntry(rlThread, rlCalledAt, rlWaitMs, now', FALSE))
  /\ rlPc' = "idle"
  /\ UNCHANGED <<minIntervalEnv, rlThread, rlCalledAt, rlWaitMs, clientVars, parseVars, treeVars, kbVars, frameVars, grVars, dmVars>>

\* the client of the daemon and of the rate limiter runs: COPILOT_MAX_RETRIES=2,
\* the other settings at their defaults
InitClientDaemon ==
  /\ endpoint = [answers |-> DaemonAnswers, latencies |-> {0}, bodyReads |-> {0}]
  /\ maxRetries = 2
  /\ retryBaseMs = 400
  /\ timeoutMs = 25000
  /\ maxTotalWaitMs = 70000
  /\ logWritable = TRUE

InitRate ==
  /\ now = StartClock
  /\ InitClientDaemon
  /\ apiKeySource = "github_token"
  /\ usageLog = <<>>
  /\ InitGrIdle
  /\ InitRateIdle
  /\ minIntervalEnv \in {"", "0", "500", "-5", "soon"}
  /\ InitDaemonIdle
  /\ InitParseIdle
  /\ InitTreeIdle
  /\ InitKbIdle
  /\ InitFrameIdle

NextRate == (\E t \in RateThreads : RlCall(t[1], t[2])) \/ RlWake

SpecRate == InitRate /\ [][NextRate]_vars

(* ------------------------------------------------------------------ *)
(* Session store, transport and the daemon                              *)
(* ------------------------------------------------------------------ *)
\* bounds of the daemon's runs
MaxUpdates == 2
MaxPolls == 2
MaxRestarts == 1
\* generateReply calls explored in the daemon's runs
MaxGenCalls == 2
\* sessionRetentionMessages of the configuration explored
RetentionMessages == 3
\* config.pollIntervalMs
PollIntervalMs == 1200

DefaultTopic == "main"
DefaultModel == "gpt-4o"
\* const preferredModel = 'gpt-5.3-codex', an id of DEFAULT_MODELS
PreferredModel == "gpt-5.3-codex"
Chats == {1, 2}

(* ------------------------------------------------------------------ *)
(* The router: parseTelegramText                                        *)
(* ------------------------------------------------------------------ *)
\* config.defaultAgent
DefaultAgent == "default"

\* an optional argument or field that is absent
Undefined == "undefined"

\* a mutant of Coalesce: the current value is ignored
CoalesceDefaultOnly(a, b) == b

\* a ?? b
Coalesce(a, b) == IF a = Undefined THEN b ELSE a

\* a || b, for strings
OrElse(a, b) == IF a = Undefined \/ a = "" THEN b ELSE a

\* the texts explored
ParseTexts ==
  { "hello", "/start", "/model gpt-x", "/MODEL gpt-x", "/model", "/model nope",
    "/topic research", "/topic v1.2", "/agent coder", "/ask why",
    "/ask --model gpt-x why", "/ask --model nope why", "/askm nope why",
    "/language en", "/language xx", "/language" }

\* the trimmed text cut at its white space
Words(raw) ==
  CASE raw = "/model gpt-x" -> <<"/model", "gpt-x">>
    [] raw = "/MODEL gpt-x" -> <<"/MODEL", "gpt-x">>
    [] raw = "/model nope" -> <<"/model", "nope">>
    [] raw = "/topic research" -> <<"/topic", "research">>
    [] raw = "/topic v1.2" -> <<"/topic", "v1.2">>
    [] raw = "/agent coder" -> <<"/agent", "coder">>
    [] raw = "/ask why" -> <<"/ask", "why">>
    [] raw = "/ask --model gpt-x why" -> <<"/ask", "--model", "gpt-x", "why">>
    [] raw = "/ask --model nope why" -> <<"/ask", "--model", "nope", "why">>
    [] raw = "/askm nope why" -> <<"/askm", "nope", "why">>
    [] raw = "/askm gpt-x why" -> <<"/askm", "gpt-x", "why">>
    [] raw = "/paperbrainstorm why" -> <<"/paperbrainstorm", "why">>
    [] raw = "/language en" -> <<"/language", "en">>
    [] raw = "/language xx" -> <<"/language", "xx">>
    [] OTHER -> <<raw>>

\* the regular expressions carry the flag i
LowerCase(w) == IF w = "/MODEL" THEN "/model" ELSE w

\* [\w\-.]{1,64} and [\w\-]{1,64}: every word explored is made of word
\* characters, hyphens and dots and is short; one of them has a dot
MatchesIdWithDots(w) == w # ""
MatchesId(w) == w # "" /\ w # "v1.2"

RECURSIVE JoinWords(_)
JoinWords(ws) ==
  IF ws = <<>> THEN ""
  ELSE IF Len(ws) = 1 THEN ws[1] ELSE ws[1] \o " " \o JoinWords(Tail(ws))

\* the elements of a sequence from position i on
SuffixFrom(ws, i) == [k \in 1..(Len(ws) - i + 1) |-> ws[k + i - 1]]

ParsedMessage(topic, agent, modelId, command, text) ==
  [topic |-> topic, agent |-> agent, modelId |-> modelId, command |-> command,
   text |-> text, languageInput |-> Undefined, askModelId |-> Undefined,
   question |-> Undefined]

\* the ParsedMessage of an ask command
AskMessage(topic, agent, modelId, askModelId, question) ==
  [ParsedMessage(topic, agent, OrElse(askModelId, modelId), "ask",
                 "Paper question requested")
     EXCEPT !.askModelId = askModelId, !.question = question]

\* parseTelegramText(input, config, currentTopic, currentAgent, currentModelId):
\* the branches of the commands explored, in the order of the source; command
\* is "" where the source leaves it undefined
parseTelegramText(raw, currentTopic, currentAgent, currentModelId) ==
  LET topic == Coalesce(currentTopic, DefaultTopic)
      agent == Coalesce(currentAgent, DefaultAgent)
      modelId == Coalesce(currentModelId, DefaultModel)
      ws == Words(raw)
      cmd == LowerCase(ws[1])
  IN IF cmd = "/start" /\ Len(ws) = 1
     THEN ParsedMessage(topic, agent, modelId, "start", "welcome")
     ELSE IF cmd = "/language"
     THEN [ParsedMessage(topic, agent, modelId, "language", "Language config requested")
             EXCEPT !.languageInput = IF Len(ws) > 1 THEN JoinWords(Tail(ws)) ELSE Undefined]
     ELSE IF cmd = "/model" /\ Len(ws) = 2 /\ MatchesIdWithDots(ws[2])
     THEN ParsedMessage(topic, agent, ws[2], "model", "Model changed to " \o ws[2])
     ELSE IF cmd = "/askm" /\ Len(ws) >= 3 /\ MatchesIdWithDots(ws[2])
     THEN AskMessage(topic, agent, modelId, ws[2], JoinWords(SuffixFrom(ws, 3)))
     ELSE IF cmd = "/ask" /\ Len(ws) >= 2
     THEN IF Len(ws) >= 4 /\ ws[2] = "--model" /\ MatchesIdWithDots(ws[3])
          THEN AskMessage(topic, agent, modelId, ws[3], JoinWords(SuffixFrom(ws, 4)))
          ELSE AskMessage(topic, agent, modelId, Undefined, JoinWords(Tail(ws)))
     ELSE IF cmd = "/paperorganize" /\ Len(ws) = 1
     THEN ParsedMessage(topic, agent, modelId, "paperorganize", "Paper organize requested")
     ELSE IF cmd = "/paperbrainstorm" /\ Len(ws) >= 2 /\ ws[2] # "--mode"
     THEN [ParsedMessage(topic, agent, modelId, "paperbrainstorm", "Paper brainstorm requested")
             EXCEPT !.question = JoinWords(Tail(ws))]
     ELSE IF cmd = "/topic" /\ Len(ws) = 2 /\ MatchesId(ws[2])
     THEN ParsedMessage(ws[2], agent, modelId, "topic", "Topic changed to " \o ws[2])
     ELSE IF cmd = "/agent" /\ Len(ws) = 2 /\ MatchesIdWithDots(ws[2])
     THEN ParsedMessage(topic, ws[2], modelId, "agent", "Agent changed to " \o ws[2])
     ELSE ParsedMessage(topic, agent, modelId, "", raw)

(* ------------------------------------------------------------------ *)
(* The updates and the store                                            *)
(* ------------------------------------------------------------------ *)
\* what an update can be: a callback query, an update with neither a message
\* with a chat id nor a callback query, a command, a free-form text
UpdateShapes ==
  { [kind |-> "callback", chat |-> 1, text |-> ""],
    [kind |-> "other", chat |-> 0, text |-> ""],
    [kind |-> "message", chat |-> 1, text |-> "/start"],
    [kind |-> "message", chat |-> 1, text |-> "hello"],
    [kind |-> "message", chat |-> 2, text |-> "hello"] }

\* the update the for loop is at
Cur == inbox[updates[idx]]
CurId == updates[idx]
\* getCurrentProfile(chatId, defaultTopic): the profile of a chat whose topic
\* state holds no topic and no agent
CurTopic == DefaultTopic
CurAgent == DefaultAgent
CurThread == <<Cur.chat, CurTopic>>

RECURSIVE SeqFromTo(_, _)
SeqFromTo(a, b) == IF a > b THEN <<>> ELSE <<a>> \o SeqFromTo(a + 1, b)

\* TelegramClient.getUpdates(offset || undefined): the pending updates from
\* the offset on, oldest first; a given offset confirms the updates below it
ConfirmedBy(off) == IF off = 0 THEN serverOffset ELSE Max(serverOffset, off)
GetUpdates(off) == SeqFromTo(Max(ConfirmedBy(off), 1), arrived)

\* SessionStore.setOffset(n): a value below the stored offset is not taken
SetOffset(stored, n) == Max(stored, n)

\* SessionStore.getSelectedModel(chatId, topic)
GetSelectedModel(thread) ==
  IF thread \in DOMAIN selectedModel /\ selectedModel[thread] # ""
  THEN selectedModel[thread] ELSE DefaultModel

\* SessionStore.setSelectedModel(chatId, topic, modelId)
SetSelectedModel(thread, modelId) ==
  [t \in DOMAIN selectedModel \cup {thread} |->
     IF t = thread THEN modelId ELSE selectedModel[t]]

\* SessionStore.getTopicState(chatId, topic, key): "" for a key that is not set
GetTopicState(chatId, topic, key) ==
  IF <<chatId, topic, key>> \in DOMAIN topicState
  THEN topicState[<<chatId, topic, key>>] ELSE ""

\* SessionStore.setTopicState(chatId, topic, key, value)
SetTopicState(chatId, topic, key, value) ==
  [k \in DOMAIN topicState \cup {<<chatId, topic, key>>} |->
     IF k = <<chatId, topic, key>> THEN value ELSE topicState[k]]

\* setTopicState applied to a topic state that is being built
TopicStateWith(state, chatId, topic, key, value) ==
  [k \in DOMAIN state \cup {<<chatId, topic, key>>} |->
     IF k = <<chatId, topic, key>> THEN value ELSE state[k]]

\* the message id Telegram returns for the menu message of a chat
MenuMessageId == "1"

\* upsertMainMenu once its edit or send went through: the id of the menu
\* message, the topic of that message under the default topic, and the mode
upsertMainMenu(state, chatId, topic, mode, messageId) ==
  TopicStateWith(
    TopicStateWith(
      TopicStateWith(state, chatId, topic, "ui_main_menu_message_id", messageId),
      chatId, DefaultTopic, "ui_menu_topic_by_message_" \o messageId, topic),
    chatId, topic, "ui_mode", mode)

Msg(chatId, topic, role, content) ==
  [chatId |-> chatId, topic |-> topic, role |-> role, content |-> content]

\* a mutant of InThread: the topic is not compared
InThreadChatOnly(m, chatId, topic) == m.chatId = chatId

\* the row belongs to the thread (chatId, topic)
InThread(m, chatId, topic) == m.chatId = chatId /\ m.topic = topic

RECURSIVE CountIn(_, _, _)
CountIn(msgs, chatId, topic) ==
  IF msgs = <<>> THEN 0
  ELSE (IF InThread(Head(msgs), chatId, topic) THEN 1 ELSE 0)
       + CountIn(Tail(msgs), chatId, topic)

\* retention pruning of one thread: its oldest messages go first
RECURSIVE Prune(_, _, _, _)
Prune(msgs, chatId, topic, excess) ==
  IF excess <= 0 \/ msgs = <<>> THEN msgs
  ELSE IF InThread(Head(msgs), chatId, topic)
       THEN Prune(Tail(msgs), chatId, topic, excess - 1)
       ELSE <<Head(msgs)>> \o Prune(Tail(msgs), chatId, topic, excess)

\* SessionStore.append(message): the row is added, then the thread is pruned
\* to the retention count, the newest message always staying
StoreAppend(msgs, chatId, topic, role, content) ==
  LET added == Append(msgs, Msg(chatId, topic, role, content))
  IN Prune(added, chatId, topic,
           CountIn(added, chatId, topic) - Max(RetentionMessages, 1))

\* a mutant of StoreUserMessage: the user's text is not written
StoreUserMessageSkipped(msgs, chatId, topic, text) == msgs

\* store.append({chatId, topic, role: 'user', agent, content: text})
StoreUserMessage(msgs, chatId, topic, text) == StoreAppend(msgs, chatId, topic, "user", text)

\* a mutant of AdvanceOffset: the offset skips one update too many
AdvanceOffsetSkip(off, updateId) == Max(off, updateId + 2)

\* offset = Math.max(offset, update.update_id + 1)
AdvanceOffset(off, updateId) == Max(off, updateId + 1)

\* a mutant of OffsetAfterError: the catch block reloads the persisted offset
OffsetAfterErrorReloaded(off, stored) == stored

\* the catch block of the loop leaves the offset as the for loop left it
OffsetAfterError(off, stored) == off

\* a mutant of OnLoopError: the exception leaves main() and ends the process
OnLoopErrorEscapes ==
  /\ mainPc' = "exited"
  /\ offset' = offset
  /\ UNCHANGED iterLogged

\* catch (error) { process.stderr.write(...) }, then on to the sleep
OnLoopError ==
  /\ mainPc' = "sleep"
  /\ offset' = OffsetAfterError(offset, storedOffset)
  /\ iterLogged' = TRUE

\* an exception reaches the try block of the loop
Raise ==
  /\ iterThrew' = TRUE
  /\ OnLoopError
  /\ hPc' = ""
  /\ hPath' = ""
  /\ hModel' = ""
  /\ UNCHANGED <<updates, idx, storedOffset, handledSet, iterDone, storedAtFetch, lastSet, toolError, toolResult,
                 polls, restarts>>

\* a mutant of AfterHandler: the offset is persisted after each update
AfterHandlerPersisting ==
  /\ offset' = AdvanceOffset(offset, CurId)
  /\ storedOffset' = SetOffset(storedOffset, AdvanceOffset(offset, CurId))
  /\ UNCHANGED <<lastSet, toolError, toolResult>>

\* after the awaited handler: offset = Math.max(...), nothing is persisted
AfterHandler ==
  /\ offset' = AdvanceOffset(offset, CurId)
  /\ UNCHANGED <<storedOffset, lastSet, toolError, toolResult>>

\* the handler of the current update has run to completion
HandlerReturns ==
  /\ AfterHandler
  /\ idx' = idx + 1
  /\ mainPc' = "loop"
  /\ hPc' = ""
  /\ hPath' = ""
  /\ hModel' = ""
  /\ handledSet' = handledSet \cup {CurId}
  /\ iterDone' = iterDone \cup {CurId}
  /\ UNCHANGED <<updates, iterThrew, iterLogged, storedAtFetch, polls, restarts>>

\* sendChunks / answerCallbackQuery to the chat: it fails when the chat cannot
\* be reached, and the handler's caller decides what follows
SendFails(chatId) == chatId \in unreachable

\* a new update reaches the server while the daemon is between two fetches
Arrive ==
  /\ mainPc \in {"fetch", "sleep"}
  /\ arrived < Len(inbox)
  /\ arrived' = arrived + 1
  /\ UNCHANGED <<now, clientVars, parseVars, treeVars, kbVars, frameVars, grVars, rlVars, inbox, serverOffset, unreachable,
                 storeVars, mainVars, obsVars>>

\* const updates = await telegram.getUpdates(offset || undefined)
FetchBatch ==
  /\ mainPc = "fetch"
  /\ serverOffset' = ConfirmedBy(offset)
  /\ updates' = GetUpdates(offset)
  /\ idx' = 1
  /\ mainPc' = "loop"
  /\ iterDone' = {}
  /\ iterThrew' = FALSE
  /\ iterLogged' = FALSE
  /\ storedAtFetch' = storedOffset
  /\ UNCHANGED <<now, clientVars, parseVars, treeVars, kbVars, frameVars, grVars, rlVars, inbox, arrived, unreachable, storeVars,
                 offset, hPc, hPath, hModel, restarts, handledSet, msgsAtGen, hTrace, hSent, lastSet, toolError, toolResult>>

\* getUpdates rejects (the chat API cannot be reached): no batch, the catch block
FetchRejects ==
  /\ mainPc = "fetch"
  /\ updates' = <<>>
  /\ idx' = 1
  /\ iterDone' = {}
  /\ iterThrew' = TRUE
  /\ storedAtFetch' = storedOffset
  /\ OnLoopError
  /\ UNCHANGED <<now, clientVars, parseVars, treeVars, kbVars, frameVars, grVars, rlVars, envVars, storeVars, hPc, hPath, hModel, restarts,
                 handledSet, msgsAtGen, hTrace, hSent, lastSet, toolError, toolResult>>

MainFetch == polls < MaxPolls /\ polls' = polls + 1 /\ FetchBatch

MainFetchFails == polls < MaxPolls /\ polls' = polls + 1 /\ FetchRejects

\* the head of the for loop: the next update is given to its handler, or
\* skipped when it has neither a callback query nor a message with a chat id
MainDispatch ==
  /\ mainPc = "loop"
  /\ idx <= Len(updates)
  /\ IF Cur.kind = "other"
     THEN /\ offset' = AdvanceOffset(offset, CurId)
          /\ idx' = idx + 1
          /\ UNCHANGED <<mainPc, hPc, hTrace, hSent>>
     ELSE /\ mainPc' = "handler"
          /\ hPc' = Cur.kind
          /\ hTrace' = <<>>
          /\ hSent' = FALSE
          /\ UNCHANGED <<offset, idx>>
  /\ UNCHANGED <<now, clientVars, parseVars, treeVars, kbVars, frameVars, grVars, rlVars, envVars, storeVars, updates, hPath, hModel,
                 polls, restarts, handledSet, iterDone, iterThrew, iterLogged, storedAtFetch,
                 msgsAtGen, lastSet, toolError, toolResult>>

\* after the for loop: if (updates.length > 0) store.setOffset(offset)
MainPersist ==
  /\ mainPc = "loop"
  /\ idx > Len(updates)
  /\ IF Len(updates) > 0
     THEN /\ storedOffset' = SetOffset(storedOffset, offset)
          /\ lastSet' = [by |-> "daemon", lower |-> offset < storedOffset]
          /\ UNCHANGED <<toolError, toolResult>>
     ELSE UNCHANGED <<storedOffset, lastSet, toolError, toolResult>>
  /\ mainPc' = "sleep"
  /\ UNCHANGED <<now, clientVars, parseVars, treeVars, kbVars, frameVars, grVars, rlVars, envVars, messages, selectedModel, devVibe,
                 devProject, catalog, topicState, offset, updates, idx, hPc, hPath, hModel, polls, restarts,
                 handledSet, iterDone, iterThrew, iterLogged, storedAtFetch, msgsAtGen, hTrace, hSent>>

\* await sleep(config.pollIntervalMs)
MainSleep ==
  /\ mainPc = "sleep"
  /\ polls < MaxPolls
  /\ now' = now + PollIntervalMs
  /\ mainPc' = "fetch"
  /\ UNCHANGED <<clientVars, parseVars, treeVars, kbVars, frameVars, grVars, rlVars, envVars, storeVars, offset, updates, idx, hPc,
                 hPath, hModel, obsVars>>

\* a mutant of HandlerContinues: the handler is not awaited, the for loop goes
\* on while the handler waits
HandlerContinuesDetached(pc, path, model) ==
  /\ hPc' = pc
  /\ hPath' = path
  /\ hModel' = model
  /\ mainPc' = "loop"
  /\ UNCHANGED <<offset, updates, idx, storedOffset, lastSet, toolError, toolResult, handledSet, iterDone,
                 iterThrew, iterLogged, storedAtFetch, polls, restarts>>

\* the running handler goes on to its next await
HandlerContinues(pc, path, model) ==
  /\ hPc' = pc
  /\ hPath' = path
  /\ hModel' = model
  /\ UNCHANGED <<mainPc, offset, updates, idx, storedOffset, lastSet, toolError, toolResult, handledSet, iterDone,
                 iterThrew, iterLogged, storedAtFetch, polls, restarts>>

\* the handler's last send: it returns, or the failed send is thrown to main()
SendAndReturn(chatId) ==
  IF SendFails(chatId) THEN Raise /\ UNCHANGED hSent
  ELSE HandlerReturns /\ hSent' = TRUE

\* a mutant of AfterRateLimit: a rate limiter that threw is passed over
AfterRateLimitIgnoringThrow(threw) == "rate"

\* try { await enforceCopilotRateLimit(...); ... generateReply(...) } catch: where
\* the handler goes once the rate limiter was called
AfterRateLimit(threw) == IF threw THEN "catch" ELSE "rate"

\* one call of the running handler: store.append (arg: the role),
\* store.continueContext, enforceCopilotRateLimit, copilot.generateReply (arg:
\* the model id)
Step(op, thread, arg) == [op |-> op, thread |-> thread, arg |-> arg]

\* handleMessage, its first lines: the text is parsed with the chat's current
\* profile and the thread's selected model
Parsed ==
  parseTelegramText(Cur.text, CurTopic, CurAgent, GetSelectedModel(CurThread))
ParsedThread == <<Cur.chat, Parsed.topic>>

\* handleCallbackQuery: every branch answers the callback query or sends
HCallback ==
  /\ mainPc = "handler"
  /\ hPc = "callback"
  /\ Cur.text # "dev:copilot"
  /\ SendAndReturn(Cur.chat)
  /\ UNCHANGED <<now, clientVars, parseVars, treeVars, kbVars, frameVars, grVars, rlVars, envVars, messages, selectedModel, devVibe,
                 devProject, catalog, topicState, msgsAtGen, hTrace>>

\* modelId = catalog.findById(selected)?.id ?? config.defaultModel
UsableModel(thread) ==
  IF GetSelectedModel(thread) \in catalog THEN GetSelectedModel(thread) ELSE DefaultModel

\* handleMessage for the command /start (daemon.ts:1126-1130): the greeting and
\* the main menu in home mode; the vibe-coding flag is not written
HCommand ==
  /\ mainPc = "handler"
  /\ hPc = "message"
  /\ Parsed.command = "start"
  /\ SendAndReturn(Cur.chat)
  /\ topicState' = IF SendFails(Cur.chat) THEN topicState
                   ELSE upsertMainMenu(topicState, Cur.chat, Parsed.topic, "home", MenuMessageId)
  /\ UNCHANGED <<now, clientVars, parseVars, treeVars, kbVars, frameVars, grVars, rlVars, envVars, messages, selectedModel, devVibe,
                 devProject, catalog, msgsAtGen, hTrace>>

\* handleMessage for a free-form text, default path (daemon.ts:2302-2343): from
\* the append of the user message to the call of the rate limiter
HFreeForm ==
  /\ mainPc = "handler"
  /\ hPc = "message"
  /\ Parsed.command = ""
  /\ CurThread \notin devVibe
  /\ messages' = StoreUserMessage(messages, Cur.chat, CurTopic, Cur.text)
  /\ selectedModel' = IF GetSelectedModel(CurThread) \in catalog THEN selectedModel
                      ELSE SetSelectedModel(CurThread, DefaultModel)
  /\ IF GetSelectedModel(CurThread) \notin catalog /\ SendFails(Cur.chat)
     THEN Raise /\ UNCHANGED <<rlVars, hSent>>
     ELSE IF ~isEnabled
     THEN SendAndReturn(Cur.chat) /\ UNCHANGED rlVars
     ELSE /\ RlEnter(Cur.chat, CurTopic, now)
          /\ HandlerContinues(AfterRateLimit(MinIntervalInvalid(minIntervalEnv)),
                              "default", UsableModel(CurThread))
          /\ hSent' = (GetSelectedModel(CurThread) \notin catalog)
          /\ UNCHANGED minIntervalEnv
  /\ hTrace' = <<Step("append", CurThread, "user"), Step("continueContext", CurThread, "")>>
                \o (IF (GetSelectedModel(CurThread) \notin catalog /\ SendFails(Cur.chat))
                       \/ ~isEnabled
                    THEN <<>>
                    ELSE <<Step("enforceCopilotRateLimit", CurThread, "")>>)
  /\ UNCHANGED <<now, clientVars, parseVars, treeVars, kbVars, frameVars, grVars, envVars, devVibe, devProject, catalog, topicState, msgsAtGen>>

\* tryHandleDevNaturalInput for a free-form text in vibe-coding mode
\* (daemon.ts:1017-1033): up to the call of the rate limiter
HVibe ==
  /\ mainPc = "handler"
  /\ hPc = "message"
  /\ Parsed.command = ""
  /\ CurThread \in devVibe
  /\ IF CurThread \notin devProject
     THEN /\ SendAndReturn(Cur.chat)
          /\ UNCHANGED <<messages, selectedModel, rlVars, hTrace>>
     ELSE /\ selectedModel' = IF UsableModel(CurThread) # GetSelectedModel(CurThread)
                              THEN SetSelectedModel(CurThread, UsableModel(CurThread))
                              ELSE selectedModel
          /\ messages' = StoreUserMessage(messages, Cur.chat, CurTopic, Cur.text)
          /\ RlEnter(Cur.chat, CurTopic, now)
          /\ HandlerContinues(AfterRateLimit(MinIntervalInvalid(minIntervalEnv)),
                              "vibe", UsableModel(CurThread))
          /\ UNCHANGED hSent
          /\ hTrace' = <<Step("continueContext", CurThread, ""),
                         Step("append", CurThread, "user"),
                         Step("enforceCopilotRateLimit", CurThread, "")>>
          /\ UNCHANGED minIntervalEnv
  /\ UNCHANGED <<now, clientVars, parseVars, treeVars, kbVars, frameVars, grVars, envVars, devVibe, devProject, catalog, topicState, msgsAtGen>>

\* the rate limiter has returned: const reply = await copilot.generateReply(...)
HGenerate ==
  /\ mainPc = "handler"
  /\ hPc = "rate"
  /\ rlPc = "idle"
  /\ calls < MaxGenCalls
  /\ GrBegin
  /\ msgsAtGen' = messages
  /\ hTrace' = Append(hTrace, Step("generateReply", CurThread, hModel))
  /\ HandlerContinues("gen", hPath, hModel)
  /\ UNCHANGED hSent
  /\ UNCHANGED <<now, rlVars, envVars, messages, selectedModel, devVibe, devProject, catalog, topicState>>

\* the awaited generateReply has settled: its frame is gone
GrFrameDropped ==
  /\ grPc' = "idle"
  /\ attempt' = 0
  /\ startedAt' = 0
  /\ lastError' = NoError
  /\ grOutcome' = "none"
  /\ attemptsMade' = 0
  /\ lastResponse' = NoResponse
  /\ allRetryable' = TRUE
  /\ sleepLog' = <<>>
  /\ logAtCall' = 0
  /\ UNCHANGED <<usageLog, calls>>

\* generateReply returned: the assistant message is appended and the reply sent
HReply ==
  /\ mainPc = "handler"
  /\ hPc = "gen"
  /\ hPath # "paper"
  /\ grPc = "returned"
  /\ messages' = StoreAppend(messages, Cur.chat, CurTopic, "assistant", "reply")
  /\ hTrace' = Append(hTrace, Step("append", CurThread, "assistant"))
  /\ SendAndReturn(Cur.chat)
  /\ GrFrameDropped
  /\ UNCHANGED <<now, clientVars, parseVars, treeVars, kbVars, frameVars, rlVars, envVars, selectedModel, devVibe, devProject,
                 catalog, topicState, msgsAtGen>>

\* the catch block of the free-form paths: the failure is reported to the chat
HCatch ==
  /\ mainPc = "handler"
  /\ hPc = "catch" \/ (hPc = "gen" /\ grPc = "thrown")
  /\ SendAndReturn(Cur.chat)
  /\ GrFrameDropped
  /\ UNCHANGED <<now, clientVars, parseVars, treeVars, kbVars, frameVars, rlVars, envVars, messages, selectedModel, devVibe,
                 devProject, catalog, topicState, msgsAtGen, hTrace>>

\* a mutant of parseLanguageInput: any value is taken for English
parseLanguageInputLenient(raw) == "en"

\* parseLanguageInput(raw)
parseLanguageInput(raw) ==
  IF raw \in {"zh", "zh-cn", "cn", "chinese"} THEN "zh"
  ELSE IF raw \in {"en", "en-us", "english"} THEN "en"
  ELSE Undefined

\* a mutant of ModelAccepted: every id is taken
ModelAcceptedAlways(modelId) == TRUE

\* catalog.findById(modelId) finds a model
ModelAccepted(modelId) == modelId \in catalog

\* handleMessage for the command /model (daemon.ts:1350-1382)
HModel ==
  /\ mainPc = "handler"
  /\ hPc = "message"
  /\ Parsed.command = "model"
  /\ IF ~ModelAccepted(Parsed.modelId)
     THEN UNCHANGED <<selectedModel, messages, hTrace>>
     ELSE /\ selectedModel' = SetSelectedModel(ParsedThread, Parsed.modelId)
          /\ messages' = StoreAppend(messages, Cur.chat, Parsed.topic, "system", Parsed.text)
          /\ hTrace' = <<Step("setSelectedModel", ParsedThread, Parsed.modelId),
                         Step("append", ParsedThread, "system")>>
  /\ SendAndReturn(Cur.chat)
  /\ UNCHANGED <<now, clientVars, parseVars, treeVars, kbVars, frameVars, grVars, rlVars, envVars, devVibe, devProject,
                 catalog, topicState, msgsAtGen>>

\* handleMessage for the commands /topic and /agent (daemon.ts:2289-2300)
HProfile ==
  /\ mainPc = "handler"
  /\ hPc = "message"
  /\ Parsed.command \in {"topic", "agent"}
  /\ messages' = StoreAppend(messages, Cur.chat, Parsed.topic, "system", Parsed.text)
  /\ hTrace' = <<Step("append", ParsedThread, "system")>>
  /\ SendAndReturn(Cur.chat)
  /\ UNCHANGED <<now, clientVars, parseVars, treeVars, kbVars, frameVars, grVars, rlVars, envVars, selectedModel, devVibe,
                 devProject, catalog, topicState, msgsAtGen>>

\* handleMessage for the command /language (daemon.ts:1079-1124)
HLanguage ==
  /\ mainPc = "handler"
  /\ hPc = "message"
  /\ Parsed.command = "language"
  /\ IF Parsed.languageInput = Undefined \/ parseLanguageInput(Parsed.languageInput) = Undefined
     THEN UNCHANGED <<topicState, hTrace>>
     ELSE /\ topicState' = SetTopicState(Cur.chat, Parsed.topic, "ui_language",
                                         parseLanguageInput(Parsed.languageInput))
          /\ hTrace' = <<Step("setTopicState", ParsedThread, "ui_language")>>
  /\ SendAndReturn(Cur.chat)
  /\ UNCHANGED <<now, clientVars, parseVars, treeVars, kbVars, frameVars, grVars, rlVars, envVars, messages, selectedModel,
                 devVibe, devProject, catalog, msgsAtGen>>

\* let modelIdForAsk = askModelId || parsed.modelId, the default when that of
\* the thread is not in the catalog
ModelForAsk ==
  IF Parsed.askModelId # Undefined THEN Parsed.askModelId
  ELSE IF Parsed.modelId \in catalog THEN Parsed.modelId ELSE DefaultModel

\* a mutant of AskFallsBack: the ask command always resets the selected model
AskFallsBackAlways == TRUE

\* the ask command replaces a selected model that is not in the catalog
AskFallsBack == Parsed.askModelId = Undefined /\ Parsed.modelId \notin catalog

\* handleMessage for the command /ask (daemon.ts:2130-2227): up to the call of
\* the rate limiter
HAsk ==
  /\ mainPc = "handler"
  /\ hPc = "message"
  /\ Parsed.command = "ask"
  /\ IF GetTopicState(Cur.chat, Parsed.topic, "active_paper_path") = ""
        \/ (Parsed.askModelId # Undefined /\ ~ModelAccepted(Parsed.askModelId))
     THEN /\ SendAndReturn(Cur.chat)
          /\ UNCHANGED <<selectedModel, messages, hTrace, rlVars>>
     ELSE /\ selectedModel' = IF AskFallsBack THEN SetSelectedModel(ParsedThread, DefaultModel)
                              ELSE selectedModel
          /\ IF AskFallsBack /\ SendFails(Cur.chat)
             THEN /\ Raise
                  /\ UNCHANGED <<messages, hTrace, hSent, rlVars>>
             ELSE /\ messages' = StoreAppend(
                                   StoreAppend(messages, Cur.chat, Parsed.topic, "user",
                                               Parsed.question),
                                   Cur.chat, Parsed.topic, "system", "[paper-context]")
                  /\ IF ~isEnabled
                     THEN /\ SendAndReturn(Cur.chat)
                          /\ hTrace' = <<Step("append", ParsedThread, "user"),
                                         Step("append", ParsedThread, "system"),
                                         Step("continueContext", ParsedThread, "")>>
                          /\ UNCHANGED rlVars
                     ELSE /\ RlEnter(Cur.chat, Parsed.topic, now)
                          /\ HandlerContinues(AfterRateLimit(MinIntervalInvalid(minIntervalEnv)),
                                              "ask", ModelForAsk)
                          /\ hSent' = AskFallsBack
                          /\ hTrace' = <<Step("append", ParsedThread, "user"),
                                         Step("append", ParsedThread, "system"),
                                         Step("continueContext", ParsedThread, ""),
                                         Step("enforceCopilotRateLimit", ParsedThread, "")>>
                          /\ UNCHANGED minIntervalEnv
  /\ UNCHANGED <<now, clientVars, parseVars, treeVars, kbVars, frameVars, grVars, envVars, devVibe, devProject, catalog,
                 topicState, msgsAtGen>>

\* handleMessage for the commands /paperorganize and /paperbrainstorm
\* (daemon.ts:1844-1896, 1923-1989), without a thinking mode in the text: up to
\* the call of the rate limiter
HPaperOrganize ==
  /\ mainPc = "handler"
  /\ hPc = "message"
  /\ Parsed.command \in {"paperorganize", "paperbrainstorm"}
  /\ LET inPaperMode == SetTopicState(Cur.chat, Parsed.topic, "ui_mode", "paper")
     IN IF GetTopicState(Cur.chat, Parsed.topic, "active_paper_path") = ""
        THEN /\ SendAndReturn(Cur.chat)
             /\ topicState' =
                  IF SendFails(Cur.chat) THEN inPaperMode
                  ELSE [k \in DOMAIN inPaperMode \cup {<<Cur.chat, Parsed.topic, "paper_nav_step">>}
                          |-> IF k = <<Cur.chat, Parsed.topic, "paper_nav_step">> THEN "paper_menu"
                              ELSE inPaperMode[k]]
             /\ UNCHANGED <<hTrace, rlVars>>
        ELSE IF ~isEnabled
        THEN /\ SendAndReturn(Cur.chat)
             /\ topicState' = inPaperMode
             /\ UNCHANGED <<hTrace, rlVars>>
        ELSE /\ topicState' = inPaperMode
             /\ IF SendFails(Cur.chat)
                THEN /\ HandlerContinues("catch", "paper", Parsed.modelId)
                     /\ hTrace' = <<Step("continueContext", ParsedThread, "")>>
                     /\ UNCHANGED <<hSent, rlVars>>
                ELSE /\ RlEnter(Cur.chat, Parsed.topic, now)
                     /\ HandlerContinues(AfterRateLimit(MinIntervalInvalid(minIntervalEnv)),
                                         "paper", Parsed.modelId)
                     /\ hSent' = TRUE
                     /\ hTrace' = <<Step("continueContext", ParsedThread, ""),
                                    Step("enforceCopilotRateLimit", ParsedThread, "")>>
                     /\ UNCHANGED minIntervalEnv
  /\ UNCHANGED <<now, clientVars, parseVars, treeVars, kbVars, frameVars, grVars, envVars, messages, selectedModel,
                 devVibe, devProject, catalog, msgsAtGen>>

\* the paper commands after generateReply returned (daemon.ts:1906-1915): the
\* assistant message is appended, the answer sent and the paper nav step set; a
\* failed send goes to the catch block
HPaperReply ==
  /\ mainPc = "handler"
  /\ hPc = "gen"
  /\ hPath = "paper"
  /\ grPc = "returned"
  /\ messages' = StoreAppend(messages, Cur.chat, CurTopic, "assistant", "reply")
  /\ hTrace' = Append(hTrace, Step("append", CurThread, "assistant"))
  /\ IF SendFails(Cur.chat)
     THEN /\ HandlerContinues("catch", "paper", hModel)
          /\ UNCHANGED <<hSent, topicState>>
     ELSE /\ HandlerReturns
          /\ hSent' = TRUE
          /\ topicState' = SetTopicState(Cur.chat, CurTopic, "paper_nav_step",
                                          IF Parsed.command = "paperorganize"
                                          THEN "paper_organize_prompt"
                                          ELSE "paper_brainstorm_prompt")
  /\ GrFrameDropped
  /\ UNCHANGED <<now, clientVars, parseVars, treeVars, kbVars, frameVars, rlVars, envVars, selectedModel, devVibe,
                 devProject, catalog, msgsAtGen>>

\* handleCallbackQuery for the button dev:copilot (daemon.ts:2595-2612): the
\* agents are cached, the model is set, the callback is answered and the vibe
\* panel, once rendered, puts the thread in vibe-coding mode
HCallbackCopilot ==
  /\ mainPc = "handler"
  /\ hPc = "callback"
  /\ Cur.text = "dev:copilot"
  /\ IF CurThread \notin devProject
     THEN UNCHANGED <<topicState, selectedModel, devVibe, hTrace>>
     ELSE /\ topicState' =
               LET cached == SetTopicState(Cur.chat, CurTopic, "dev_agent_cache", "agents")
               IN IF SendFails(Cur.chat) THEN cached
                  ELSE TopicStateWith(
                         TopicStateWith(
                           TopicStateWith(cached, Cur.chat, CurTopic,
                                          "ui_main_menu_message_id", MenuMessageId),
                           Cur.chat, CurTopic, "ui_mode", "dev_vibe"),
                         Cur.chat, CurTopic, "dev_nav_step", "vibe")
          /\ selectedModel' =
               IF PreferredModel \in catalog
               THEN SetSelectedModel(CurThread, PreferredModel)
               ELSE IF GetSelectedModel(CurThread) \notin catalog
               THEN SetSelectedModel(CurThread, DefaultModel)
               ELSE selectedModel
          /\ hTrace' = <<Step("setTopicState", CurThread, "dev_agent_cache")>>
                        \o (IF PreferredModel \in catalog
                            THEN <<Step("setSelectedModel", CurThread, PreferredModel)>>
                            ELSE IF GetSelectedModel(CurThread) \notin catalog
                            THEN <<Step("setSelectedModel", CurThread, DefaultModel)>>
                            ELSE <<>>)
          /\ devVibe' = IF SendFails(Cur.chat) THEN devVibe ELSE devVibe \cup {CurThread}
  /\ SendAndReturn(Cur.chat)
  /\ UNCHANGED <<now, clientVars, parseVars, treeVars, kbVars, frameVars, grVars, rlVars, envVars, messages, devProject,
                 catalog, msgsAtGen>>

\* the copilot.select_model tool of the MCP server, on the same store
\* (mcpServer.ts:401-413)
McpSelectModel(thread, modelId) ==
  /\ IF ~ModelAccepted(modelId)
     THEN /\ toolError' = "Model not found in catalog"
          /\ UNCHANGED selectedModel
     ELSE /\ toolError' = ""
          /\ selectedModel' = SetSelectedModel(thread, modelId)
  /\ toolResult' = NoToolResult
  /\ UNCHANGED <<now, clientVars, parseVars, treeVars, kbVars, frameVars, grVars, rlVars, envVars, storedOffset, messages,
                 devVibe, devProject, catalog, topicState, mainVars, polls, restarts,
                 handledSet, iterDone, iterThrew, iterLogged, storedAtFetch, msgsAtGen, hTrace,
                 hSent, lastSet>>

\* the messages of a chat, of one topic when a topic is given, oldest first
ThreadMessages(msgs, chatId, topic) ==
  SelectSeq(msgs, LAMBDA m : IF topic = Undefined THEN m.chatId = chatId
                             ELSE InThread(m, chatId, topic))

\* the newest n elements of a sequence, in their order
LastN(seq, n) ==
  IF Len(seq) <= n THEN seq ELSE SubSeq(seq, Len(seq) - n + 1, Len(seq))

\* SessionStore.getHistory({chatId, topic?, limit?}): the newest messages of the
\* chat, of the topic when one is given, in insertion order; limit 0 stands for
\* a call that names no limit
getHistory(msgs, chatId, topic, limit) ==
  IF limit = 0 THEN ThreadMessages(msgs, chatId, topic)
  ELSE LastN(ThreadMessages(msgs, chatId, topic), limit)

\* SessionStore.continueContext(chatId, topic, limit): the messages the
\* continuation context is made of, the newest ones of the thread
continueContext(msgs, chatId, topic, limit) ==
  LastN(ThreadMessages(msgs, chatId, topic), limit)

\* the chats, topics and limits the session tools are called with (0: no limit
\* argument, Undefined: no topic argument)
ToolChats == Chats
ToolTopics == {Undefined, "", DefaultTopic, "research"}
ToolLimits == {0, 1, 2}
\* number of session.append calls explored
MaxStoreCalls == 4

\* the tool session.append of the MCP server (mcpServer.ts:330-339); the content
\* is the number of the call
McpSessionAppend(chatId, topicArg) ==
  /\ Len(hTrace) < MaxStoreCalls
  /\ messages' = StoreAppend(messages, chatId, Coalesce(topicArg, DefaultTopic), "user",
                             Len(hTrace) + 1)
  /\ hTrace' = Append(hTrace, Step("append", <<chatId, Coalesce(topicArg, DefaultTopic)>>,
                                   Len(hTrace) + 1))
  /\ toolError' = ""
  /\ toolResult' = [tool |-> "session.append", chatId |-> chatId,
                    topic |-> Coalesce(topicArg, DefaultTopic), limit |-> 0,
                    messages |-> <<>>]
  /\ UNCHANGED <<now, clientVars, parseVars, treeVars, kbVars, frameVars, grVars, rlVars, envVars, storedOffset,
                 selectedModel, devVibe, devProject, catalog, topicState, mainVars, polls,
                 restarts, handledSet, iterDone, iterThrew, iterLogged, storedAtFetch,
                 msgsAtGen, hSent, lastSet>>

\* a tool that reads messages has returned them
SessionToolReturns(tool, chatId, topic, limit, result) ==
  /\ toolError' = ""
  /\ toolResult' = [tool |-> tool, chatId |-> chatId, topic |-> topic, limit |-> limit,
                    messages |-> result]
  /\ UNCHANGED <<now, clientVars, parseVars, treeVars, kbVars, frameVars, grVars, rlVars, envVars, storeVars, mainVars,
                 polls, restarts, handledSet, iterDone, iterThrew, iterLogged, storedAtFetch,
                 msgsAtGen, hTrace, hSent, lastSet>>

\* the tool session.get_history (mcpServer.ts:340-346): a topic argument that
\* is absent or empty is passed as undefined, and so is a limit that is absent or 0
McpSessionGetHistory(chatId, topicArg, limitArg) ==
  LET topic == IF topicArg = Undefined \/ topicArg = "" THEN Undefined ELSE topicArg
  IN SessionToolReturns("session.get_history", chatId, topic, limitArg,
                        getHistory(messages, chatId, topic, limitArg))

\* the tool session.continue (mcpServer.ts:358-364): the default topic for an
\* absent topic argument, 20 for an absent or 0 limit
McpSessionContinue(chatId, topicArg, limitArg) ==
  LET topic == Coalesce(topicArg, DefaultTopic)
      limit == IF limitArg = 0 THEN 20 ELSE limitArg
  IN SessionToolReturns("session.continue", chatId, topic, limitArg,
                        continueContext(messages, chatId, topic, limit))

\* the process dies and is started again: main() reads the persisted offset,
\* the in-memory state is gone
Restart ==
  /\ restarts < MaxRestarts
  /\ mainPc \in {"loop", "sleep"}
  /\ restarts' = restarts + 1
  /\ offset' = storedOffset
  /\ mainPc' = "fetch"
  /\ updates' = <<>>
  /\ idx' = 1
  /\ hPc' = ""
  /\ hPath' = ""
  /\ hModel' = ""
  /\ iterDone' = {}
  /\ iterThrew' = FALSE
  /\ iterLogged' = FALSE
  /\ storedAtFetch' = storedOffset
  /\ msgsAtGen' = <<>>
  /\ hTrace' = <<>>
  /\ hSent' = FALSE
  /\ grPc' = "idle"
  /\ attempt' = 0
  /\ startedAt' = 0
  /\ lastError' = NoError
  /\ grOutcome' = "none"
  /\ attemptsMade' = 0
  /\ lastResponse' = NoResponse
  /\ allRetryable' = TRUE
  /\ sleepLog' = <<>>
  /\ logAtCall' = 0
  /\ copilotLastCallAt' = << >>
  /\ rlPc' = "idle"
  /\ rlThread' = <<0, "">>
  /\ rlCalledAt' = 0
  /\ rlWaitMs' = 0
  /\ rlLog' = <<>>
  /\ UNCHANGED <<now, clientVars, parseVars, treeVars, kbVars, frameVars, usageLog, calls, minIntervalEnv, envVars, storeVars,
                 polls, handledSet, lastSet, toolError, toolResult>>

\* the bridge.set_offset tool of the MCP server, on the same store
McpSetOffset(n) ==
  /\ storedOffset' = SetOffset(storedOffset, n)
  /\ lastSet' = [by |-> "tool", lower |-> n < storedOffset]
  /\ toolError' = ""
  /\ toolResult' = NoToolResult
  /\ UNCHANGED <<now, clientVars, parseVars, treeVars, kbVars, frameVars, grVars, rlVars, envVars, messages, selectedModel, devVibe,
                 devProject, catalog, topicState, mainVars, polls, restarts, handledSet, iterDone,
                 iterThrew, iterLogged, storedAtFetch, msgsAtGen, hTrace, hSent>>

\* configurations the daemon is started in: the credential, the chats that
\* cannot be reached, the vibe-coding mode of chat 1, its selected model and
\* the value of COPILOT_MIN_INTERVAL_MS, whether the thread has an active paper
Scenarios ==
  { [key |-> "github_token", unreachable |-> {}, vibe |-> "off", model |-> "", interval |-> "", paper |-> FALSE],
    [key |-> "none", unreachable |-> {}, vibe |-> "off", model |-> "", interval |-> "", paper |-> FALSE],
    [key |-> "github_token", unreachable |-> {2}, vibe |-> "off", model |-> "retired-model",
     interval |-> "", paper |-> FALSE],
    [key |-> "github_token", unreachable |-> {}, vibe |-> "vibe", model |-> "retired-model",
     interval |-> "", paper |-> FALSE],
    [key |-> "none", unreachable |-> {2}, vibe |-> "vibe", model |-> "", interval |-> "", paper |-> FALSE],
    [key |-> "github_token", unreachable |-> {2}, vibe |-> "vibe without project",
     model |-> "", interval |-> "", paper |-> FALSE],
    [key |-> "github_token", unreachable |-> {}, vibe |-> "off", model |-> "",
     interval |-> "-5", paper |-> FALSE] }

\* the scenarios that differ in what main() reads
LoopScenarios ==
  {s \in Scenarios : s.key = "github_token" /\ s.vibe = "off" /\ s.interval = ""}

\* main() up to the while loop: let offset = store.getOffset()
InitDaemonIn(scenarios, shapes, catalogs) ==
  /\ now = StartClock
  /\ InitClientDaemon
  /\ usageLog = <<>>
  /\ InitGrIdle
  /\ InitRateIdle
  /\ inbox \in [1..MaxUpdates -> shapes]
  /\ arrived = 0
  /\ serverOffset = 0
  /\ storedOffset = 0
  /\ messages = <<>>
  /\ \E s \in scenarios :
       /\ apiKeySource = s.key
       /\ unreachable = s.unreachable
       /\ minIntervalEnv = s.interval
       /\ selectedModel = IF s.model = "" THEN << >>
                          ELSE [t \in {<<1, DefaultTopic>>} |-> s.model]
       /\ devVibe = IF s.vibe \in {"vibe", "vibe without project"}
                    THEN {<<1, DefaultTopic>>} ELSE {}
       /\ devProject = IF s.vibe \in {"vibe", "project"} THEN {<<1, DefaultTopic>>} ELSE {}
       /\ topicState =
            [k \in (IF s.paper THEN {<<1, DefaultTopic, "active_paper_path">>} ELSE {})
                    \cup (IF s.vibe \in {"vibe", "vibe without project"}
                          THEN {<<1, DefaultTopic, "ui_mode">>} ELSE {})
               |-> IF k[3] = "ui_mode" THEN "dev_vibe" ELSE "paper.pdf"]
  /\ catalog \in catalogs
  /\ mainPc = "fetch"
  /\ offset = storedOffset
  /\ updates = <<>>
  /\ idx = 1
  /\ hPc = ""
  /\ hPath = ""
  /\ hModel = ""
  /\ polls = 0
  /\ restarts = 0
  /\ handledSet = {}
  /\ iterDone = {}
  /\ iterThrew = FALSE
  /\ iterLogged = FALSE
  /\ storedAtFetch = 0
  /\ msgsAtGen = <<>>
  /\ hTrace = <<>>
  /\ hSent = FALSE
  /\ lastSet = NoSet
  /\ toolError = ""
  /\ toolResult = NoToolResult
  /\ InitParseIdle
  /\ InitTreeIdle
  /\ InitKbIdle
  /\ InitFrameIdle

\* the daemon started with a catalog that holds the default model
InitDaemon(scenarios, shapes) ==
  InitDaemonIn(scenarios, shapes, {{DefaultModel, "gpt-x", PreferredModel}})

Init == InitDaemon(Scenarios, UpdateShapes)

Next ==
  \/ Arrive
  \/ MainFetch
  \/ MainFetchFails
  \/ MainDispatch
  \/ MainPersist
  \/ MainSleep
  \/ HCallback
  \/ HCommand
  \/ HFreeForm
  \/ HVibe
  \/ RlWake
  \/ HGenerate
  \/ GrLoopTest
  \/ GrFetch
  \/ GrSleep
  \/ GrFail
  \/ HReply
  \/ HCatch

Spec == Init /\ [][Next]_vars

(* ------------------------------------------------------------------ *)
(* main() alone: each handler is one awaited call that returns or throws *)
(* ------------------------------------------------------------------ *)
\* the for loop's step on the current update: the awaited handler returns and
\* the offset moves on, or it throws and the catch block of the loop runs
LoopHandle ==
  /\ mainPc = "loop"
  /\ idx <= Len(updates)
  /\ IF Cur.kind = "other"
     THEN /\ offset' = AdvanceOffset(offset, CurId)
          /\ idx' = idx + 1
          /\ UNCHANGED <<mainPc, hPc, hPath, hModel, updates, storedOffset, lastSet, toolError, toolResult, handledSet,
                         iterDone, iterThrew, iterLogged, storedAtFetch, polls, restarts, hSent>>
     ELSE SendAndReturn(Cur.chat)
  /\ UNCHANGED <<now, clientVars, parseVars, treeVars, kbVars, frameVars, grVars, rlVars, envVars, messages, selectedModel, devVibe,
                 devProject, catalog, topicState, msgsAtGen, hTrace>>

\* await sleep(config.pollIntervalMs), the clock not followed
LoopSleep ==
  /\ mainPc = "sleep"
  /\ mainPc' = "fetch"
  /\ UNCHANGED <<now, clientVars, parseVars, treeVars, kbVars, frameVars, grVars, rlVars, envVars, storeVars, offset, updates, idx,
                 hPc, hPath, hModel, obsVars>>

LoopFetch == FetchBatch /\ UNCHANGED polls

LoopFetchFails == FetchRejects /\ UNCHANGED polls

\* main() tells updates apart by their kind; a handler's outcome is its chat's
LoopShapes == {u \in UpdateShapes : u.text # "/start"}

InitLoop == InitDaemon(LoopScenarios, LoopShapes)

LoopStep == LoopFetch \/ LoopFetchFails \/ LoopHandle \/ MainPersist \/ LoopSleep

NextLoop ==
  \/ Arrive
  \/ LoopFetch
  \/ LoopFetchFails
  \/ LoopHandle
  \/ MainPersist
  \/ LoopSleep
  \/ Restart

\* the loop with restarts of the process
SpecLoop == InitLoop /\ [][NextLoop]_vars

\* the offsets the bridge.set_offset tool is called with
ToolOffsets == 0..(MaxUpdates + 1)

NextFairLoop ==
  \/ Arrive
  \/ LoopFetch
  \/ LoopFetchFails
  \/ LoopHandle
  \/ MainPersist
  \/ LoopSleep

NextLoopMcp == NextFairLoop \/ (\E n \in ToolOffsets : McpSetOffset(n))

\* the running loop and the MCP server's bridge.set_offset on the same store
SpecLoopMcp == InitLoop /\ [][NextLoopMcp]_vars

\* while (true) never stops taking its next step, and getUpdates, asked again
\* and again, answers again and again
FairSpecLoop ==
  /\ InitLoop
  /\ [][NextFairLoop]_vars
  /\ WF_vars(LoopStep)
  /\ SF_vars(LoopFetch)

(* ------------------------------------------------------------------ *)
(* The router called on its own                                        *)
(* ------------------------------------------------------------------ *)
\* the current values a caller passes, or leaves out
ParseInputs ==
  [raw : ParseTexts, topic : {Undefined, "research"}, agent : {Undefined, "coder"},
   modelId : {Undefined, "gpt-x"}]

InitParse ==
  /\ now = StartClock
  /\ InitClientDaemon
  /\ apiKeySource = "github_token"
  /\ usageLog = <<>>
  /\ InitGrIdle
  /\ InitRateIdle
  /\ minIntervalEnv = ""
  /\ InitDaemonIdle
  /\ parseIn \in ParseInputs
  /\ parseOut = NotParsed
  /\ InitTreeIdle
  /\ InitKbIdle
  /\ InitFrameIdle

\* a caller calls parseTelegramText
ParseCall ==
  /\ parseOut = NotParsed
  /\ parseOut' = parseTelegramText(parseIn.raw, parseIn.topic, parseIn.agent, parseIn.modelId)
  /\ UNCHANGED <<parseIn, now, clientVars, grVars, rlVars, dmVars, treeVars, kbVars, frameVars>>

NextParse == ParseCall

SpecParse == InitParse /\ [][NextParse]_vars

(* ------------------------------------------------------------------ *)
(* The commands of a chat                                               *)
(* ------------------------------------------------------------------ *)
\* the updates of chat 1 explored: the commands that change the profile, the
\* model or the language, with values that are accepted and that are not, a
\* paper question, the Copilot button of the dev menu and a free-form text
CmdShapes ==
  { [kind |-> "message", chat |-> 1, text |-> "/model gpt-x"],
    [kind |-> "message", chat |-> 1, text |-> "/model nope"],
    [kind |-> "message", chat |-> 1, text |-> "/topic research"],
    [kind |-> "message", chat |-> 1, text |-> "/agent coder"],
    [kind |-> "message", chat |-> 1, text |-> "/language en"],
    [kind |-> "message", chat |-> 1, text |-> "/language xx"],
    [kind |-> "message", chat |-> 1, text |-> "/ask --model gpt-x why"],
    [kind |-> "message", chat |-> 1, text |-> "/ask --model nope why"],
    [kind |-> "callback", chat |-> 1, text |-> "dev:copilot"],
    [kind |-> "message", chat |-> 1, text |-> "hello"] }

\* a chat with a focused project and an active paper, outside vibe-coding mode
CmdScenarios ==
  { [key |-> "github_token", unreachable |-> {}, vibe |-> "project", model |-> "",
     interval |-> "0", paper |-> TRUE] }

\* the ids the tool is called with
ToolModels == {"gpt-x", "nope"}

InitCmd == InitDaemon(CmdScenarios, CmdShapes)

NextCmd ==
  \/ Arrive
  \/ MainFetch
  \/ MainFetchFails
  \/ MainDispatch
  \/ MainPersist
  \/ MainSleep
  \/ HModel
  \/ HProfile
  \/ HLanguage
  \/ HAsk
  \/ HCallbackCopilot
  \/ HFreeForm
  \/ HVibe
  \/ HGenerate
  \/ GrLoopTest
  \/ GrFetch
  \/ GrSleep
  \/ GrFail
  \/ HReply
  \/ HCatch

SpecCmd == InitCmd /\ [][NextCmd]_vars

\* the model of a thread, selected in the chat and by the tool
ModelShapes == {u \in CmdShapes : u.text \in {"/model gpt-x", "/model nope", "hello"}}

InitModel == InitDaemon(CmdScenarios, ModelShapes)

NextModel ==
  \/ Arrive
  \/ MainFetch
  \/ MainFetchFails
  \/ MainDispatch
  \/ MainPersist
  \/ MainSleep
  \/ HModel
  \/ HFreeForm
  \/ HGenerate
  \/ GrLoopTest
  \/ GrFetch
  \/ GrSleep
  \/ GrFail
  \/ HReply
  \/ HCatch
  \/ (\E m \in ToolModels : McpSelectModel(<<1, DefaultTopic>>, m))

SpecModel == InitModel /\ [][NextModel]_vars

(* ------------------------------------------------------------------ *)
(* The daemon with questions about the active paper                    *)
(* ------------------------------------------------------------------ *)
AskShapes ==
  { [kind |-> "message", chat |-> 1, text |-> "/askm gpt-x why"],
    [kind |-> "message", chat |-> 1, text |-> "/ask --model gpt-x why"],
    [kind |-> "message", chat |-> 1, text |-> "hello"] }

\* a chat with an active paper whose thread has a selected model, one of the
\* catalog or one that has left it
AskScenarios ==
  { [key |-> "github_token", unreachable |-> {}, vibe |-> "off", model |-> m,
     interval |-> "0", paper |-> TRUE] : m \in {PreferredModel, "retired-model"} }

InitAsk == InitDaemon(AskScenarios, AskShapes)

NextAsk ==
  \/ Arrive
  \/ MainFetch
  \/ MainFetchFails
  \/ MainDispatch
  \/ MainPersist
  \/ MainSleep
  \/ HAsk
  \/ HFreeForm
  \/ HGenerate
  \/ GrLoopTest
  \/ GrFetch
  \/ GrSleep
  \/ GrFail
  \/ HReply
  \/ HCatch

SpecAsk == InitAsk /\ [][NextAsk]_vars

(* ------------------------------------------------------------------ *)
(* The daemon handling the paper commands that call the gateway         *)
(* ------------------------------------------------------------------ *)
PaperShapes ==
  { [kind |-> "message", chat |-> 1, text |-> "/paperorganize"],
    [kind |-> "message", chat |-> 1, text |-> "/paperbrainstorm why"],
    [kind |-> "message", chat |-> 1, text |-> "hello"] }

InitPaper == InitDaemon(AskScenarios, PaperShapes)

NextPaper ==
  \/ Arrive
  \/ MainFetch
  \/ MainFetchFails
  \/ MainDispatch
  \/ MainPersist
  \/ MainSleep
  \/ HPaperOrganize
  \/ HFreeForm
  \/ HGenerate
  \/ GrLoopTest
  \/ GrFetch
  \/ GrSleep
  \/ GrFail
  \/ HReply
  \/ HPaperReply
  \/ HCatch

SpecPaper == InitPaper /\ [][NextPaper]_vars

\* a thread whose stored model has left the catalog sends free-form texts; the
\* catalog, as loaded or as left by replaceWithModelIds (part_007:40-62), holds
\* the configured default model or not
FallbackShapes ==
  { [kind |-> "message", chat |-> 1, text |-> "hello"],
    [kind |-> "message", chat |-> 1, text |-> "/start"] }

FallbackScenarios ==
  { [key |-> "github_token", unreachable |-> {}, vibe |-> "off", model |-> "retired-model",
     interval |-> i, paper |-> FALSE] : i \in {"", "0"} }

FallbackCatalogs == { {DefaultModel, "gpt-x"}, {"gpt-x", PreferredModel} }

InitFallback == InitDaemonIn(FallbackScenarios, FallbackShapes, FallbackCatalogs)

NextFallback ==
  \/ Arrive
  \/ MainFetch
  \/ MainFetchFails
  \/ MainDispatch
  \/ MainPersist
  \/ MainSleep
  \/ HCommand
  \/ HFreeForm
  \/ HGenerate
  \/ GrLoopTest
  \/ GrFetch
  \/ GrSleep
  \/ GrFail
  \/ HReply
  \/ HCatch

SpecFallback == InitFallback /\ [][NextFallback]_vars

\* a chat with a focused project, in vibe-coding mode or about to enter it,
\* that leaves the vibe panel by a command
VibeShapes ==
  { [kind |-> "callback", chat |-> 1, text |-> "dev:copilot"],
    [kind |-> "message", chat |-> 1, text |-> "/start"],
    [kind |-> "message", chat |-> 1, text |-> "/paperorganize"],
    [kind |-> "message", chat |-> 1, text |-> "hello"] }

VibeScenarios ==
  { [key |-> "github_token", unreachable |-> {}, vibe |-> v, model |-> "",
     interval |-> "0", paper |-> TRUE] : v \in {"vibe", "project"} }

InitVibe == InitDaemon(VibeScenarios, VibeShapes)

NextVibe ==
  \/ Arrive
  \/ MainFetch
  \/ MainFetchFails
  \/ MainDispatch
  \/ MainPersist
  \/ MainSleep
  \/ HCommand
  \/ HPaperOrganize
  \/ HCallbackCopilot
  \/ HFreeForm
  \/ HVibe
  \/ HGenerate
  \/ GrLoopTest
  \/ GrFetch
  \/ GrSleep
  \/ GrFail
  \/ HReply
  \/ HPaperReply
  \/ HCatch

SpecVibe == InitVibe /\ [][NextVibe]_vars

(* ------------------------------------------------------------------ *)
(* The session tools of the MCP server on the store                    *)
(* ------------------------------------------------------------------ *)
InitStore ==
  /\ now = StartClock
  /\ InitClientDaemon
  /\ apiKeySource = "github_token"
  /\ usageLog = <<>>
  /\ InitGrIdle
  /\ InitRateIdle
  /\ minIntervalEnv = ""
  /\ InitDaemonIdle
  /\ InitParseIdle
  /\ InitTreeIdle
  /\ InitKbIdle
  /\ InitFrameIdle

NextStore ==
  \/ (\E c \in ToolChats, t \in ToolTopics : McpSessionAppend(c, t))
  \/ (\E c \in ToolChats, t \in ToolTopics, l \in ToolLimits : McpSessionGetHistory(c, t, l))
  \/ (\E c \in ToolChats, t \in ToolTopics, l \in ToolLimits : McpSessionContinue(c, t, l))

SpecStore == InitStore /\ [][NextStore]_vars

(* ------------------------------------------------------------------ *)
(* The file tree of the dev workspace and its '#fileN' index           *)
(* ------------------------------------------------------------------ *)
\* Names and paths are sequences of characters, because the extension and the
\* JSON text of the cache are computed character by character.
Dot == "."
Quote == "\""
Backslash == "\\"

\* the names a directory may hold, in the order of String.localeCompare:
\* a dot file, a plain name, a name without a dot, a name that ends with a
\* dot, a name with a double quote, a name with two dots
TreeFileNames ==
  << <<".", "e">>, <<"a", ".", "t">>, <<"M">>, <<"n", ".">>,
     <<"q", "\"", ".", "m">>, <<"x", ".", "t", ".", "s">> >>
TreeDirNames == << <<"d">>, <<"l">> >>
\* the directories listed: the project root ('.') and one below it
TreeDirs == {<<>>, <<"s">>}

Range(seq) == {seq[i] : i \in DOMAIN seq}

\* path.relative(projectPath, abs) with '/' separators
TreeRelativePath(dir, name) == IF dir = <<>> THEN name ELSE dir \o <<"/">> \o name

\* the DevFileInfo records of one directory: directories first, then by name
ListingOf(dir, dirNames, fileNames) ==
  LET D == SelectSeq(TreeDirNames, LAMBDA n : n \in dirNames)
      F == SelectSeq(TreeFileNames, LAMBDA n : n \in fileNames)
  IN  [i \in 1..Len(D) |-> [name |-> D[i], relativePath |-> TreeRelativePath(dir, D[i]),
                            isDirectory |-> TRUE]]
      \o [i \in 1..Len(F) |-> [name |-> F[i], relativePath |-> TreeRelativePath(dir, F[i]),
                               isDirectory |-> FALSE]]

TreeListings ==
  {ListingOf(dir, dn, fn) : dir \in TreeDirs, dn \in SUBSET Range(TreeDirNames),
                            fn \in SUBSET Range(TreeFileNames)}

\* the page size of the file tree; 30 in the source, smaller here so that the
\* listings above fill several pages
DevTreePageSize == 3
MaxTreePage == 3
FileReplyIndexes == 0..(Len(TreeFileNames) + 1)

\* name.includes('.') ? name.split('.').pop() ?? 'file' : 'file'
RECURSIVE AfterLastDot(_)
AfterLastDot(name) ==
  IF name = <<>> \/ name[Len(name)] = Dot THEN <<>>
  ELSE AfterLastDot(SubSeq(name, 1, Len(name) - 1)) \o <<name[Len(name)]>>
ExtensionOf(name) ==
  IF Dot \in Range(name) THEN AfterLastDot(name) ELSE <<"f", "i", "l", "e">>

\* the number of files among the first n items
FilesUpTo(items, n) == Cardinality({i \in 1..n : ~items[i].isDirectory})

\* a Map<string, number>: a function from the keys set; a later set of the same
\* key replaces the earlier one
buildGlobalFileIndexMap(items) ==
  LET keys == {items[i].relativePath : i \in {j \in DOMAIN items : ~items[j].isDirectory}}
      lastAt(p) == CHOOSE i \in DOMAIN items :
                     /\ ~items[i].isDirectory /\ items[i].relativePath = p
                     /\ \A j \in DOMAIN items :
                          (~items[j].isDirectory /\ items[j].relativePath = p) => j <= i
  IN  [p \in keys |-> FilesUpTo(items, lastAt(p))]

\* map.get(key) ?? 0
MapGetOrZero(map, key) == IF key \in DOMAIN map THEN map[key] ELSE 0

\* the entries with the files numbered within their page
buildDevTreeEntriesPerPage(items, globalFileIndexMap) ==
  [i \in 1..Len(items) |->
     IF items[i].isDirectory
     THEN [index |-> 0, name |-> items[i].name, relativePath |-> items[i].relativePath,
           isDirectory |-> TRUE, ext |-> <<>>]
     ELSE [index |-> FilesUpTo(items, i),
           name |-> items[i].name, relativePath |-> items[i].relativePath,
           isDirectory |-> FALSE, ext |-> ExtensionOf(items[i].name)]]

buildDevTreeEntries(items, globalFileIndexMap) ==
  [i \in 1..Len(items) |->
     IF items[i].isDirectory
     THEN [index |-> 0, name |-> items[i].name, relativePath |-> items[i].relativePath,
           isDirectory |-> TRUE, ext |-> <<>>]
     ELSE [index |-> MapGetOrZero(globalFileIndexMap, items[i].relativePath),
           name |-> items[i].name, relativePath |-> items[i].relativePath,
           isDirectory |-> FALSE, ext |-> ExtensionOf(items[i].name)]]

buildDevFileIndexCache(items, globalFileIndexMap) ==
  LET F == SelectSeq(items, LAMBDA item : ~item.isDirectory)
  IN  [i \in 1..Len(F) |-> [index |-> MapGetOrZero(globalFileIndexMap, F[i].relativePath),
                            relativePath |-> F[i].relativePath,
                            ext |-> ExtensionOf(F[i].name)]]

\* paginateItems(items, page, pageSize).page
PaginatePage(items, page, pageSize) ==
  IF Len(items) = 0 THEN 0
  ELSE LET totalPages == Max(1, (Len(items) + pageSize - 1) \div pageSize)
       IN  Min(Max(0, page), totalPages - 1)
\* paginateItems(items, page, pageSize).pageItems
PaginateItems(items, page, pageSize) ==
  LET startIndex == PaginatePage(items, page, pageSize) * pageSize
  IN  SubSeq(items, startIndex + 1, Min(Len(items), startIndex + pageSize))

(* ---- JSON.stringify of the cache ---- *)
DigitChars == <<"0", "1", "2", "3", "4", "5", "6", "7", "8", "9">>
IsDigit(c) == c \in Range(DigitChars)
DigitValue(c) == CHOOSE d \in 0..9 : DigitChars[d + 1] = c

RECURSIVE JsonNumberText(_)
JsonNumberText(n) ==
  IF n < 10 THEN <<DigitChars[n + 1]>>
  ELSE JsonNumberText(n \div 10) \o <<DigitChars[(n % 10) + 1]>>

\* a double quote and a backslash are written with a backslash before them
RECURSIVE JsonEscape(_)
JsonEscape(chars) ==
  IF chars = <<>> THEN <<>>
  ELSE (IF Head(chars) \in {Quote, Backslash} THEN <<Backslash, Head(chars)>>
        ELSE <<Head(chars)>>) \o JsonEscape(Tail(chars))
JsonStringText(chars) == <<Quote>> \o JsonEscape(chars) \o <<Quote>>

KeyIndex == <<"i", "n", "d", "e", "x">>
KeyRelativePath == <<"r", "e", "l", "a", "t", "i", "v", "e", "P", "a", "t", "h">>
KeyExt == <<"e", "x", "t">>

JsonItemText(item) ==
  <<"{">> \o JsonStringText(KeyIndex) \o <<":">> \o JsonNumberText(item.index)
  \o <<",">> \o JsonStringText(KeyRelativePath) \o <<":">> \o JsonStringText(item.relativePath)
  \o <<",">> \o JsonStringText(KeyExt) \o <<":">> \o JsonStringText(item.ext) \o <<"}">>

RECURSIVE JsonItemsText(_)
JsonItemsText(items) ==
  IF items = <<>> THEN <<>>
  ELSE IF Len(items) = 1 THEN JsonItemText(items[1])
  ELSE JsonItemText(items[1]) \o <<",">> \o JsonItemsText(Tail(items))

\* JSON.stringify(fileIndexMap)
JsonStringify(items) == <<"[">> \o JsonItemsText(items) \o <<"]">>

(* ---- JSON.parse ---- *)
\* a parsed value is [type, value]; a parse step returns the value and the
\* position after it, or fails
JsonFail == [ok |-> FALSE, val |-> [type |-> "none"], next |-> 0]
JsonOk(type, value, next) == [ok |-> TRUE, val |-> [type |-> type, value |-> value], next |-> next]
CharAt(text, i) == IF i \in 1..Len(text) THEN text[i] ELSE "EOF"

RECURSIVE JsonParseValue(_, _), JsonParseItems(_, _, _), JsonParseMembers(_, _, _)
RECURSIVE JsonParseChars(_, _, _), JsonParseDigits(_, _, _)

\* the characters of a string, from the position after its opening quote
JsonParseChars(text, i, acc) ==
  IF i > Len(text) THEN JsonFail
  ELSE IF text[i] = Quote THEN JsonOk("string", acc, i + 1)
  ELSE IF text[i] = Backslash
       THEN IF CharAt(text, i + 1) \in {Quote, Backslash}
            THEN JsonParseChars(text, i + 2, Append(acc, text[i + 1]))
            ELSE JsonFail
  ELSE JsonParseChars(text, i + 1, Append(acc, text[i]))

JsonParseDigits(text, i, acc) ==
  IF IsDigit(CharAt(text, i)) THEN JsonParseDigits(text, i + 1, acc * 10 + DigitValue(text[i]))
  ELSE JsonOk("number", acc, i)

\* the items of an array, from the start of an item
JsonParseItems(text, i, acc) ==
  LET r == JsonParseValue(text, i)
  IN  IF ~r.ok THEN JsonFail
      ELSE IF CharAt(text, r.next) = "," THEN JsonParseItems(text, r.next + 1, Append(acc, r.val))
      ELSE IF CharAt(text, r.next) = "]" THEN JsonOk("array", Append(acc, r.val), r.next + 1)
      ELSE JsonFail

\* the members of an object, from the start of a key; acc maps keys to values
JsonParseMembers(text, i, acc) ==
  LET k == JsonParseChars(text, i + 1, <<>>)
      r == JsonParseValue(text, k.next + 1)
      obj == [x \in DOMAIN acc \cup {k.val.value} |-> IF x = k.val.value THEN r.val ELSE acc[x]]
  IN  IF CharAt(text, i) # Quote THEN JsonFail
      ELSE IF ~k.ok \/ CharAt(text, k.next) # ":" THEN JsonFail
      ELSE IF ~r.ok THEN JsonFail
      ELSE IF CharAt(text, r.next) = "," THEN JsonParseMembers(text, r.next + 1, obj)
      ELSE IF CharAt(text, r.next) = "}" THEN JsonOk("object", obj, r.next + 1)
      ELSE JsonFail

JsonParseValue(text, i) ==
  LET c == CharAt(text, i)
  IN  IF c = "[" THEN (IF CharAt(text, i + 1) = "]" THEN JsonOk("array", <<>>, i + 2)
                       ELSE JsonParseItems(text, i + 1, <<>>))
      ELSE IF c = "{" THEN (IF CharAt(text, i + 1) = "}" THEN JsonOk("object", <<>>, i + 2)
                            ELSE JsonParseMembers(text, i + 1, <<>>))
      ELSE IF c = Quote THEN JsonParseChars(text, i + 1, <<>>)
      ELSE IF IsDigit(c) THEN JsonParseDigits(text, i, 0)
      ELSE JsonFail

\* JSON.parse(raw): the value, or a SyntaxError when the text is not one value
JsonParse(text) ==
  LET r == JsonParseValue(text, 1)
  IN  IF r.ok /\ r.next = Len(text) + 1 THEN r ELSE JsonFail

\* Number.isFinite(item.index) && !!item.relativePath && !!item.ext
IsIndexItem(val) ==
  /\ val.type = "object"
  /\ {KeyIndex, KeyRelativePath, KeyExt} \subseteq DOMAIN val.value
  /\ val.value[KeyIndex].type = "number"
  /\ val.value[KeyRelativePath].type = "string" /\ val.value[KeyRelativePath].value # <<>>
  /\ val.value[KeyExt].type = "string" /\ val.value[KeyExt].value # <<>>

parseDevFileIndexCache(raw) ==
  IF ~raw.defined \/ raw.chars = <<>> THEN <<>>
  ELSE LET parsed == JsonParse(raw.chars)
       IN  IF ~parsed.ok THEN <<>>
           ELSE IF parsed.val.type # "array" THEN <<>>
           ELSE LET kept == SelectSeq(parsed.val.value, IsIndexItem)
                IN  [i \in 1..Len(kept) |->
                       [index |-> kept[i].value[KeyIndex].value,
                        relativePath |-> kept[i].value[KeyRelativePath].value,
                        ext |-> kept[i].value[KeyExt].value]]

resolveFilePathByStableIndex(cache, index) ==
  IF index <= 0 THEN UndefinedText
  ELSE IF \E i \in DOMAIN cache : cache[i].index = index
       THEN LET first == CHOOSE i \in DOMAIN cache :
                           /\ cache[i].index = index
                           /\ \A j \in 1..(i - 1) : cache[j].index # index
            IN  Text(cache[first].relativePath)
       ELSE UndefinedText

\* sendDevFileTree(telegram, store, config, chatId, topic, relativePath, page)
SendDevFileTree(page) ==
  LET globalFileIndexMap == buildGlobalFileIndexMap(files)
      pageItems == PaginateItems(files, page, DevTreePageSize)
      fileIndexMap == buildDevFileIndexCache(files, globalFileIndexMap)
  IN  /\ treeShown' = TRUE
      /\ treePage' = PaginatePage(files, page, DevTreePageSize)
      /\ treeEntries' = buildDevTreeEntries(pageItems, globalFileIndexMap)
      /\ devFileTreeIndex' = Text(JsonStringify(fileIndexMap))
      /\ UNCHANGED <<files, fileReply>>
      /\ UNCHANGED <<now, clientVars, grVars, rlVars, dmVars, parseVars, kbVars, frameVars>>

\* the 'file-index' branch of tryHandleDevNaturalInput: the reply '#fileN' is
\* looked up in the stored cache
FileIndexReply(index) ==
  LET mapping == parseDevFileIndexCache(devFileTreeIndex)
  IN  /\ fileReply' = [index |-> index,
                       filePath |-> resolveFilePathByStableIndex(mapping, index)]
      /\ UNCHANGED <<files, treeShown, treePage, treeEntries, devFileTreeIndex>>
      /\ UNCHANGED <<now, clientVars, grVars, rlVars, dmVars, parseVars, kbVars, frameVars>>

InitTree ==
  /\ now = StartClock
  /\ InitClientDaemon
  /\ apiKeySource = "github_token"
  /\ usageLog = <<>>
  /\ InitGrIdle
  /\ InitRateIdle
  /\ minIntervalEnv = ""
  /\ InitDaemonIdle
  /\ InitParseIdle
  /\ files \in TreeListings
  /\ treeShown = FALSE
  /\ treePage = 0
  /\ treeEntries = <<>>
  /\ devFileTreeIndex = UndefinedText
  /\ fileReply = NoFileReply
  /\ InitKbIdle
  /\ InitFrameIdle

NextTree ==
  \/ (\E page \in 0..MaxTreePage : SendDevFileTree(page))
  \/ (\E index \in FileReplyIndexes : FileIndexReply(index))

SpecTree == InitTree /\ [][NextTree]_vars

(* ------------------------------------------------------------------ *)
(* The inline keyboards of a chat and the topic of their callbacks      *)
(* ------------------------------------------------------------------ *)

\* keyboard messages a run sends
MaxKeyboards == 3

\* the topics getCurrentProfile returns for the chat, and so parsed.topic
Topics == {DefaultTopic, "research"}

\* the keyboards handleMessage sends with telegram.sendMessage: the file tree
\* (daemon.ts:878), the focused-project and project panels (973, 1172, 1192,
\* 1233), the vibe panel (1254), the paper list (2046), the arXiv candidates (2122)
KeyboardKinds ==
  {"file tree", "focused project", "projects", "vibe", "paper list", "arxiv candidates"}

\* String(messageId) of a message id
IdTexts == <<"1", "2", "3", "4", "5", "6", "7", "8", "9">>
\* Number(rawMessageId) of a stored id, NaN (here 0) for a missing one
IdOf(text) == IF \E n \in DOMAIN IdTexts : IdTexts[n] = text
              THEN CHOOSE n \in DOMAIN IdTexts : IdTexts[n] = text ELSE 0

\* resolveCallbackTopic (part_005:31-43) with readState reading the default
\* topic's state (daemon.ts:2385-2390)
resolveCallbackTopic(callbackMessageId, chatId) ==
  IF callbackMessageId <= 0 THEN DefaultTopic
  ELSE LET key == "ui_menu_topic_by_message_" \o IdTexts[callbackMessageId]
       IN IF <<chatId, DefaultTopic, key>> \in DOMAIN topicState
          THEN topicState[<<chatId, DefaultTopic, key>>] ELSE DefaultTopic

\* the daemon's other variables, which the keyboards leave alone
KbUnchanged ==
  UNCHANGED <<now, clientVars, grVars, rlVars, envVars, mainVars, obsVars, parseVars, treeVars,
              frameVars, storedOffset, messages, selectedModel, devVibe, devProject, catalog>>

\* /start or /menu in the chat's current topic: upsertMainMenu (daemon.ts:727-773)
\* edits the topic's menu message, or sends a new one when there is none or the
\* edit fails
SendMainMenu(topic, mode, editFails) ==
  LET existing == IdOf(GetTopicState(1, topic, "ui_main_menu_message_id"))
      edited == existing > 0 /\ ~editFails
      messageId == IF edited THEN existing ELSE Len(keyboards) + 1
      menu == [kind |-> "main menu", topic |-> topic]
  IN /\ edited \/ Len(keyboards) < MaxKeyboards
     /\ keyboards' = IF edited THEN [keyboards EXCEPT ![existing] = menu]
                     ELSE Append(keyboards, menu)
     /\ topicState' = upsertMainMenu(topicState, 1, topic, mode, IdTexts[messageId])
     /\ UNCHANGED callbackTopic
     /\ KbUnchanged

\* a command of handleMessage that answers with a keyboard of its own in the
\* chat's current topic: telegram.sendMessage(chatId, text, keyboard)
SendKeyboard(kind, topic) ==
  /\ Len(keyboards) < MaxKeyboards
  /\ keyboards' = Append(keyboards, [kind |-> kind, topic |-> topic])
  /\ UNCHANGED <<topicState, callbackTopic>>
  /\ KbUnchanged

\* handleCallbackQuery (daemon.ts:2368-2416) for a button of the keyboard message
\* messageId: the topic is resolved, and a button that renders a panel edits
\* the message in that topic
HandleCallback(messageId, mode) ==
  LET topic == resolveCallbackTopic(messageId, 1)
  IN /\ messageId \in DOMAIN keyboards
     /\ callbackTopic' = [messageId |-> messageId, topic |-> topic]
     /\ IF mode = ""
        THEN UNCHANGED <<keyboards, topicState>>
        ELSE /\ keyboards' = [keyboards EXCEPT ![messageId] = [kind |-> "main menu", topic |-> topic]]
             /\ topicState' =
                  TopicStateWith(
                    TopicStateWith(topicState, 1, topic, "ui_main_menu_message_id",
                                   IdTexts[messageId]),
                    1, topic, "ui_mode", mode)
     /\ KbUnchanged

InitKb ==
  /\ now = StartClock
  /\ InitClientDaemon
  /\ apiKeySource = "github_token"
  /\ usageLog = <<>>
  /\ InitGrIdle
  /\ InitRateIdle
  /\ minIntervalEnv = ""
  /\ InitDaemonIdle
  /\ InitParseIdle
  /\ InitTreeIdle
  /\ InitKbIdle
  /\ InitFrameIdle

NextKb ==
  \/ (\E topic \in Topics, mode \in {"home", "paper"}, editFails \in BOOLEAN :
        SendMainMenu(topic, mode, editFails))
  \/ (\E kind \in KeyboardKinds, topic \in Topics : SendKeyboard(kind, topic))
  \/ (\E messageId \in 1..MaxKeyboards, mode \in {"", "home", "dev"} :
        HandleCallback(messageId, mode))

SpecKb == InitKb /\ [][NextKb]_vars

(* ------------------------------------------------------------------ *)
(* The command /back (daemon.ts:1138-1289)                              *)
(* ------------------------------------------------------------------ *)

UiModes == {"home", "paper", "dev", "dev_vibe"}
\* DEV_NAV_STEP and PAPER_NAV_STEP (daemon.ts:58-77)
DevNavSteps ==
  {"projects", "focused", "vibe", "vibe_agent", "vibe_model", "vibe_tree",
   "dev_create_prompt", "dev_clone_prompt"}
PaperNavSteps ==
  {"paper_menu", "paper_active", "paper_help", "paper_add_prompt", "paper_history",
   "paper_candidates", "paper_organize_prompt", "paper_brainstorm_prompt"}

\* the steps that are entered with a focused project only
FocusedNavSteps == {"focused", "vibe", "vibe_agent", "vibe_model", "vibe_tree"}

normalizeUiMode(raw) == IF raw \in UiModes THEN raw ELSE "home"

\* the topic state after the writes <<key, value>> of a handler, in order
RECURSIVE TopicStateWithAll(_, _, _, _)
TopicStateWithAll(state, chatId, topic, writes) ==
  IF writes = <<>> THEN state
  ELSE TopicStateWithAll(TopicStateWith(state, chatId, topic, writes[1][1], writes[1][2]),
                         chatId, topic, Tail(writes))

\* what one /back does to the navigation state of a thread: the topic state
\* written and whether the vibe-coding flag is left, set or cleared
BackStep(state, chatId, topic, focused) ==
  LET currentMode == normalizeUiMode(IF <<chatId, topic, "ui_mode">> \in DOMAIN state
                                     THEN state[<<chatId, topic, "ui_mode">>] ELSE "")
      navStep == IF <<chatId, topic, "dev_nav_step">> \in DOMAIN state
                 THEN state[<<chatId, topic, "dev_nav_step">>] ELSE ""
      paperNavStep == IF <<chatId, topic, "paper_nav_step">> \in DOMAIN state
                      THEN state[<<chatId, topic, "paper_nav_step">>] ELSE ""
      effectiveStep == IF navStep # "" THEN navStep ELSE currentMode
      menu(mode) == [state |-> upsertMainMenu(state, chatId, topic, mode, MenuMessageId),
                     vibe |-> "kept"]
      renderProjectsByText ==
        [state |-> TopicStateWithAll(state, chatId, topic,
                     << <<"dev_project_candidates", "projects">>, <<"ui_mode", "dev">>,
                        <<"dev_nav_step", "projects">> >>),
         vibe |-> "cleared"]
      renderFocusedByText ==
        IF ~focused THEN menu("dev")
        ELSE [state |-> TopicStateWithAll(state, chatId, topic,
                          << <<"ui_mode", "dev">>, <<"dev_nav_step", "focused">> >>),
              vibe |-> "cleared"]
      renderVibeByText ==
        IF ~focused THEN renderProjectsByText
        ELSE [state |-> TopicStateWithAll(state, chatId, topic,
                          << <<"ui_mode", "dev_vibe">>, <<"dev_nav_step", "vibe">> >>),
              vibe |-> "set"]
  IN IF currentMode = "paper"
     THEN IF paperNavStep # "" /\ paperNavStep # "paper_menu"
          THEN [state |-> TopicStateWith(upsertMainMenu(state, chatId, topic, "paper", MenuMessageId),
                                         chatId, topic, "paper_nav_step", "paper_menu"),
                vibe |-> "kept"]
          ELSE menu("home")
     ELSE IF effectiveStep \in {"vibe_agent", "vibe_model", "vibe_tree"} THEN renderVibeByText
     ELSE IF effectiveStep = "vibe" \/ currentMode = "dev_vibe" THEN renderFocusedByText
     ELSE IF effectiveStep = "focused" THEN renderProjectsByText
     ELSE IF effectiveStep \in {"dev_create_prompt", "dev_clone_prompt"} THEN renderProjectsByText
     ELSE IF effectiveStep = "projects" \/ currentMode = "dev"
     THEN (IF focused THEN renderFocusedByText ELSE menu("home"))
     ELSE menu("home")

\* handleMessage for the command /back in chat 1, whose sends go through
HBack ==
  LET thread == <<1, DefaultTopic>>
      after == BackStep(topicState, 1, DefaultTopic, thread \in devProject)
  IN /\ topicState' = after.state
     /\ devVibe' = IF after.vibe = "set" THEN devVibe \cup {thread}
                   ELSE IF after.vibe = "cleared" THEN devVibe \ {thread}
                   ELSE devVibe
     /\ UNCHANGED <<now, clientVars, grVars, rlVars, envVars, mainVars, obsVars, parseVars,
                    treeVars, kbVars, frameVars, storedOffset, messages, selectedModel,
                    devProject, catalog>>

\* the mode of chat 1's thread
UiModeOfChat == normalizeUiMode(GetTopicState(1, DefaultTopic, "ui_mode"))

\* any navigation state of the thread, with or without a focused project; the
\* steps left over from an earlier visit of another mode are kept
InitBack ==
  /\ now = StartClock
  /\ InitClientDaemon
  /\ apiKeySource = "github_token"
  /\ usageLog = <<>>
  /\ InitGrIdle
  /\ InitRateIdle
  /\ minIntervalEnv = ""
  /\ inbox = <<>>
  /\ arrived = 0
  /\ serverOffset = 0
  /\ unreachable = {}
  /\ storedOffset = 0
  /\ messages = <<>>
  /\ selectedModel = << >>
  /\ catalog = {DefaultModel}
  /\ \E mode \in UiModes, navStep \in DevNavSteps \cup {""},
        paperNavStep \in PaperNavSteps \cup {""}, focused \in BOOLEAN :
       /\ (mode = "dev_vibe" \/ navStep \in FocusedNavSteps) => focused
       /\ topicState = TopicStateWithAll(<< >>, 1, DefaultTopic,
                          << <<"ui_mode", mode>>, <<"dev_nav_step", navStep>>,
                             <<"paper_nav_step", paperNavStep>> >>)
       /\ devProject = IF focused THEN {<<1, DefaultTopic>>} ELSE {}
       /\ devVibe = IF mode = "dev_vibe" THEN {<<1, DefaultTopic>>} ELSE {}
  /\ mainPc = "exited"
  /\ offset = 0
  /\ updates = <<>>
  /\ idx = 1
  /\ hPc = ""
  /\ hPath = ""
  /\ hModel = ""
  /\ polls = 0
  /\ restarts = 0
  /\ handledSet = {}
  /\ iterDone = {}
  /\ iterThrew = FALSE
  /\ iterLogged = FALSE
  /\ storedAtFetch = 0
  /\ msgsAtGen = <<>>
  /\ hTrace = <<>>
  /\ hSent = FALSE
  /\ lastSet = NoSet
  /\ toolError = ""
  /\ toolResult = NoToolResult
  /\ copilotLastCallAt = << >>
  /\ rlPc = "idle"
  /\ rlThread = <<0, "">>
  /\ rlCalledAt = 0
  /\ InitParseIdle
  /\ InitTreeIdle
  /\ InitKbIdle
  /\ InitFrameIdle

NextBack == HBack

\* the user keeps sending /back
FairSpecBack == InitBack /\ [][NextBack]_vars /\ WF_vars(HBack)

(* ------------------------------------------------------------------ *)
(* The input of the MCP server (mcpServer.ts:193-231)                   *)
(* ------------------------------------------------------------------ *)

\* requests a client writes in one run
MaxFrames == 2

CR == "\r"
LF == "\n"
Separator == <<CR, LF, CR, LF>>

\* the bodies of the requests, in code units; the last one holds the text of
\* a separator
RequestBodies == { <<"a">>, <<"b", "b">>, Separator }

\* a request as the client frames it; "C" stands for the words Content-Length
Frame(body) == <<"C", ":", " ">> \o JsonNumberText(Len(body)) \o Separator \o body

\* a header block without a Content-Length line
JunkBlock == <<"X">> \o Separator

RECURSIVE Frames(_)
Frames(bodies) ==
  IF bodies = <<>> THEN <<>> ELSE Frame(Head(bodies)) \o Frames(Tail(bodies))

BodySeqs == UNION {[1..n -> RequestBodies] : n \in 1..MaxFrames}

\* inputBuffer.indexOf(text), counted from 1; 0 when text does not occur
IndexOf(buffer, text) ==
  LET hits == {i \in 1..(Len(buffer) - Len(text) + 1) :
                 SubSeq(buffer, i, i + Len(text) - 1) = text}
  IN IF hits = {} THEN 0 ELSE CHOOSE i \in hits : \A j \in hits : i <= j

\* header.split('\r\n')
RECURSIVE SplitLines(_)
SplitLines(header) ==
  LET at == IndexOf(header, <<CR, LF>>)
  IN IF at = 0 THEN <<header>>
     ELSE <<SubSeq(header, 1, at - 1)>> \o SplitLines(SubSeq(header, at + 2, Len(header)))

\* line.toLowerCase().startsWith('content-length:')
IsContentLengthLine(line) == Len(line) >= 2 /\ line[1] = "C" /\ line[2] = ":"

\* str.trim() for blanks
RECURSIVE Trim(_)
Trim(chars) ==
  IF chars # <<>> /\ Head(chars) = " " THEN Trim(Tail(chars))
  ELSE IF chars # <<>> /\ chars[Len(chars)] = " " THEN Trim(SubSeq(chars, 1, Len(chars) - 1))
  ELSE chars

\* Number(text) of a decimal text; Number('') is 0
RECURSIVE NumberOfDigits(_)
NumberOfDigits(chars) ==
  IF chars = <<>> THEN 0
  ELSE NumberOfDigits(SubSeq(chars, 1, Len(chars) - 1)) * 10 + DigitValue(chars[Len(chars)])

\* Number(contentLengthLine.split(':')[1]?.trim() ?? '0')
ContentLength(line) ==
  LET afterColon == SubSeq(line, IndexOf(line, <<":">>) + 1, Len(line))
      next == IndexOf(afterColon, <<":">>)
      field == IF next = 0 THEN afterColon ELSE SubSeq(afterColon, 1, next - 1)
  IN NumberOfDigits(Trim(field))

\* a mutant of AfterFrame: the frame read stays in the buffer
AfterFrameUnconsumed(buffer, bodyEnd) == buffer

\* inputBuffer.slice(bodyEnd), bodyEnd counted from 1
AfterFrame(buffer, bodyEnd) == SubSeq(buffer, bodyEnd, Len(buffer))

\* the while loop of the 'data' handler, from its top to the break or to the
\* await of handleRequest: the buffer it leaves and the body it passes on
RECURSIVE ReadFrame(_)
ReadFrame(buffer) ==
  LET separatorIndex == IndexOf(buffer, Separator)
      header == SubSeq(buffer, 1, separatorIndex - 1)
      lines == SplitLines(header)
      found == {i \in DOMAIN lines : IsContentLengthLine(lines[i])}
      contentLengthLine == lines[CHOOSE i \in found : \A j \in found : i <= j]
      bodyStart == separatorIndex + 4
      bodyEnd == bodyStart + ContentLength(contentLengthLine)
  IN IF separatorIndex = 0
     THEN [awaits |-> FALSE, buffer |-> buffer, body |-> <<>>]
     ELSE IF found = {}
     THEN ReadFrame(SubSeq(buffer, separatorIndex + 4, Len(buffer)))
     ELSE IF Len(buffer) + 1 < bodyEnd
     THEN [awaits |-> FALSE, buffer |-> buffer, body |-> <<>>]
     ELSE [awaits |-> TRUE, buffer |-> AfterFrame(buffer, bodyEnd),
           body |-> SubSeq(buffer, bodyStart, bodyEnd - 1)]

\* the daemon's variables, which the MCP server's input leaves alone
FrameUnchanged ==
  UNCHANGED <<now, clientVars, grVars, rlVars, dmVars, parseVars, treeVars, kbVars, stream>>

\* process.stdin.on('data', ...): the next size code units arrive, possibly
\* while earlier calls of the handler await handleRequest; the handler runs to
\* its break or to its await
OnData(size) ==
  LET read == ReadFrame(inputBuffer \o SubSeq(stream, readPos + 1, readPos + size))
  IN /\ readPos + size <= Len(stream)
     /\ readPos' = readPos + size
     /\ inputBuffer' = read.buffer
     /\ handled' = IF read.awaits THEN Append(handled, read.body) ELSE handled
     /\ pending' = IF read.awaits THEN Append(pending, read.body) ELSE pending
     /\ UNCHANGED written
     /\ FrameUnchanged

\* the handleRequest awaited by the i-th suspended call returns: the response
\* is written and that call goes round its loop again
OnResponse(i) ==
  LET read == ReadFrame(inputBuffer)
      others == SubSeq(pending, 1, i - 1) \o SubSeq(pending, i + 1, Len(pending))
  IN /\ i \in DOMAIN pending
     /\ written' = Append(written, pending[i])
     /\ inputBuffer' = read.buffer
     /\ handled' = IF read.awaits THEN Append(handled, read.body) ELSE handled
     /\ pending' = IF read.awaits THEN Append(others, read.body) ELSE others
     /\ UNCHANGED readPos
     /\ FrameUnchanged

InitFrames ==
  /\ now = StartClock
  /\ InitClientDaemon
  /\ apiKeySource = "github_token"
  /\ usageLog = <<>>
  /\ InitGrIdle
  /\ InitRateIdle
  /\ minIntervalEnv = ""
  /\ InitDaemonIdle
  /\ InitParseIdle
  /\ InitTreeIdle
  /\ InitKbIdle
  /\ \E bodies \in BodySeqs, junk \in {<<>>, JunkBlock} : stream = junk \o Frames(bodies)
  /\ readPos = 0
  /\ inputBuffer = <<>>
  /\ pending = <<>>
  /\ handled = <<>>
  /\ written = <<>>

NextFrames ==
  \/ (\E size \in 1..(MaxFrames * 11 + 5) : OnData(size))
  \/ (\E i \in 1..MaxFrames : OnResponse(i))

SpecFrames == InitFrames /\ [][NextFrames]_vars

(* ------------------------------------------------------------------ *)
(* Properties of generateReply                                          *)
(* ------------------------------------------------------------------ *)
GrEnded == grPc \in {"returned", "thrown"}

\* C1: whatever the endpoint answers, generateReply sends at most maxRetries
\* requests and sleeps fewer than maxRetries times, so it cannot retry for ever:
\* until it has ended its next step is enabled, and when every answer was a
\* timeout, a 5xx, a network error or empty content it ends by raising.
GenRetryBudgetTerminates ==
  /\ attemptsMade <= maxRetries
  /\ Len(sleepLog) < maxRetries
  /\ attemptsMade <= Len(sleepLog) + 1
  /\ grPc \in {"loop", "fetch", "sleep", "fail"} => ENABLED GrStep
  /\ grPc = "returned" => ~allRetryable
  /\ (grPc = "thrown" /\ attemptsMade > 0) => grOutcome = "generation failed"

\* C1 witness: every one of maxRetries >= 2 attempts failed transiently and the call raised
GenRetryBudgetWitness ==
  /\ grPc = "thrown"
  /\ allRetryable
  /\ maxRetries >= 2
  /\ attemptsMade = maxRetries

\* the answers the short-circuit is promised for
IsDeclaredNonRetryable(r) ==
  /\ r.kind = "http"
  /\ \/ r.status \in {401, 403} /\ {"models", "permission"} \subseteq r.body
     \/ /\ r.status \in {400, 404, 422}
        /\ r.body \cap {"unknown_model", "unknown model", "invalid_request",
                        "invalid request", "context_length", "max context"} # {}

\* C2: after a first attempt answered with a non-retryable response there is no
\* backoff sleep and no second attempt; the call raises and has then written
\* exactly one usage record, a failure.
NonRetryableShortCircuit ==
  (attemptsMade = 1 /\ IsDeclaredNonRetryable(lastResponse)) =>
    /\ grPc \in {"fail", "thrown"}
    /\ sleepLog = <<>>
    /\ grPc = "fail" => Len(usageLog) = logAtCall
    /\ grPc = "thrown" =>
         /\ grOutcome = "generation failed"
         /\ Len(usageLog) = logAtCall + 1
         /\ usageLog[Len(usageLog)].status = "failure"

\* C2 witness: a permission-denied first answer with retries left, and the call has raised
NonRetryableShortCircuitWitness ==
  /\ grPc = "thrown"
  /\ attemptsMade = 1
  /\ maxRetries > 1
  /\ lastResponse.status = 403
  /\ IsDeclaredNonRetryable(lastResponse)
  /\ Len(usageLog) = logAtCall + 1

(* ------------------------------------------------------------------ *)
(* Properties of the rate limiter                                       *)
(* ------------------------------------------------------------------ *)
\* the limiter is in force: the variable is valid and the interval is not zero
RateLimited ==
  ~MinIntervalInvalid(minIntervalEnv) /\ getCopilotMinIntervalMs(minIntervalEnv) > 0

\* time at which the latest call of `thread` among the first n finished calls returned (0: none)
RECURSIVE LastReturnOf(_, _)
LastReturnOf(thread, n) ==
  IF n = 0 THEN 0
  ELSE IF rlLog[n].thread = thread /\ ~rlLog[n].threw THEN rlLog[n].returnedAt
  ELSE LastReturnOf(thread, n - 1)

\* C3: with a minimum interval above zero, any two calls of the same thread
\* made one after the other return at least the minimum interval apart.
RateLimiterSpacing ==
  RateLimited =>
    \A i, j \in 1..Len(rlLog) :
      (i < j /\ rlLog[i].thread = rlLog[j].thread) =>
        rlLog[j].returnedAt - rlLog[i].returnedAt >= getCopilotMinIntervalMs(minIntervalEnv)

\* C3 witness: a thread's second call came too early, was suspended and has returned
RateLimiterSpacingWitness ==
  /\ RateLimited
  /\ \E i, j \in 1..Len(rlLog) :
       /\ i < j
       /\ rlLog[i].thread = rlLog[j].thread
       /\ rlLog[j].waitMs > 0
       /\ rlLog[j].returnedAt > rlLog[j].calledAt

\* C4: the wait of a call is computed from the last return of its own thread
\* alone, and the time recorded for every thread is that thread's own last
\* return, whatever calls other threads have made.
RateLimiterIndependence ==
  RateLimited =>
    /\ \A j \in 1..Len(rlLog) :
         rlLog[j].waitMs = getCopilotMinIntervalMs(minIntervalEnv)
                             - (rlLog[j].calledAt - LastReturnOf(rlLog[j].thread, j - 1))
    /\ \A t \in RateThreads :
         LastCallOf(RateKey(t[1], t[2])) = LastReturnOf(t, Len(rlLog))

\* C4 witness: a call made within the interval of another topic's call of the
\* same chat was not suspended
RateLimiterIndependenceWitness ==
  /\ RateLimited
  /\ \E i, j \in 1..Len(rlLog) :
       /\ j = i + 1
       /\ rlLog[i].thread[1] = rlLog[j].thread[1]
       /\ rlLog[i].thread[2] # rlLog[j].thread[2]
       /\ rlLog[j].calledAt - rlLog[i].returnedAt < getCopilotMinIntervalMs(minIntervalEnv)
       /\ rlLog[j].waitMs <= 0
       /\ rlLog[j].returnedAt = rlLog[j].calledAt

(* ------------------------------------------------------------------ *)
(* Properties of the daemon's loop                                      *)
(* ------------------------------------------------------------------ *)
\* the handler of update i has run to completion, or i has no handler
Handled(i) == i \in handledSet \/ inbox[i].kind = "other"

\* C5: the offset never moves backward.  No step of the running daemon lowers
\* its offset, no step lowers the stored offset, and a setOffset with a value
\* below the stored offset, by the daemon or by the bridge.set_offset tool,
\* leaves the stored offset as it was.
OffsetNeverMovesBackward ==
  [][ /\ offset' >= offset
      /\ storedOffset' >= storedOffset
      /\ \A m \in ToolOffsets :
           (McpSetOffset(m) /\ m < storedOffset) => (storedOffset' = storedOffset)
      /\ (MainPersist /\ offset < storedOffset) => (storedOffset' = storedOffset)
    ]_vars

\* C5 witness: after two updates were handled and persisted, the tool has
\* asked for a lower offset and the stored offset is still the higher one
OffsetNeverMovesBackwardWitness ==
  /\ lastSet = [by |-> "tool", lower |-> TRUE]
  /\ storedOffset >= 2
  /\ offset >= 2

\* every update of the fetched batch has been handled
BatchHandled == \A k \in 1..Len(updates) : Handled(updates[k])

\* C6: the offset is persisted only after the whole fetched batch was handled.
\* In an iteration that threw the stored offset is what it was at the fetch;
\* where it differs, every update of the batch has been handled; and neither
\* the server nor the store has been told an offset beyond an update that was
\* not handled, so a restarted daemon is given the unhandled updates again.
PersistOnlyAfterWholeBatch ==
  /\ iterThrew => storedOffset = storedAtFetch
  /\ storedOffset # storedAtFetch => (BatchHandled /\ ~iterThrew /\ Len(updates) > 0)
  /\ \A i \in 1..arrived : (storedOffset > i \/ serverOffset > i) => Handled(i)
  /\ (restarts > 0 /\ mainPc = "loop") =>
       \A i \in 1..arrived : (i >= Max(storedOffset, 1) /\ ~Handled(i)) =>
         \E k \in 1..Len(updates) : updates[k] = i

\* C6 witness: a batch of two was fetched, its first update handled, its
\* second threw, the process was restarted and has fetched the same batch again
PersistOnlyAfterWholeBatchWitness ==
  /\ restarts > 0
  /\ mainPc = "loop"
  /\ Len(updates) = 2
  /\ updates[1] \in handledSet
  /\ ~Handled(updates[2])
  /\ storedOffset = 0

\* C7: no update is acknowledged before it has been handled: the daemon's
\* offset, which is what the next fetch passes, and the offset the server was
\* given exceed an update's id only if its handler has run to completion or it
\* carries neither a callback query nor a message with a chat id.
NoAckBeforeHandled ==
  \A i \in 1..arrived : (offset > i \/ serverOffset > i) => Handled(i)

\* C7 witness: the handler of the batch's second update is running, the offset
\* is past the first, handled, update only
NoAckBeforeHandledWitness ==
  /\ mainPc = "handler"
  /\ hPc = "gen"
  /\ idx = 2
  /\ offset = CurId
  /\ (CurId - 1) \in handledSet

\* C9: an exception thrown by the fetch or by a handler never ends the loop.
\* main() has not exited; an iteration that threw has logged the error and is
\* at the sleep or past it; the step that throws goes to the sleep; and the
\* sleep lasts the poll interval and leads to the next fetch.
LoopSurvivesExceptions ==
  /\ [](mainPc # "exited")
  /\ [](iterThrew => (iterLogged /\ mainPc \in {"sleep", "fetch"}))
  /\ []((mainPc = "sleep" /\ polls < MaxPolls) => ENABLED MainSleep)
  /\ [][ /\ (iterThrew' /\ ~iterThrew) => (mainPc' = "sleep" /\ iterLogged')
         /\ (mainPc = "sleep") => (mainPc' \in {"sleep", "fetch"})
         /\ (mainPc = "sleep" /\ mainPc' = "fetch") => (now' = now + PollIntervalMs)
       ]_vars

\* C9 witness: a handler threw after another update of the batch was handled,
\* and the loop has slept and is at its next fetch
LoopSurvivesExceptionsWitness ==
  /\ iterThrew
  /\ iterLogged
  /\ iterDone # {}
  /\ mainPc = "fetch"
  /\ polls >= 1

\* the thread of the current update ends with the user's message
UserMessageStored ==
  /\ messages # <<>>
  /\ messages[Len(messages)] = Msg(Cur.chat, CurTopic, "user", Cur.text)

\* C10: while generateReply runs for a free-form message the user's message
\* with that text is the newest of its thread and the messages are what they
\* were at the call; when generateReply has thrown, the step that follows leaves
\* the messages alone: the user's message stays, no assistant message is added.
UserMessageSurvivesFailure ==
  /\ []((hPc = "gen") => (UserMessageStored /\ messages = msgsAtGen))
  /\ [][ (hPc = "gen" /\ grPc = "thrown") => (messages' = messages) ]_vars

\* C10 witness: generateReply, called on the default path with a credential,
\* has thrown after its requests failed
UserMessageSurvivesFailureWitness ==
  /\ hPc = "gen"
  /\ hPath = "default"
  /\ grPc = "thrown"
  /\ attemptsMade >= 1
  /\ UserMessageStored

(* ------------------------------------------------------------------ *)
(* Properties of the handlers                                           *)
(* ------------------------------------------------------------------ *)

\* what a step of the trace calls: the operation, and for an append the role
CallName(s) == IF s.op = "append" THEN <<s.op, s.arg>> ELSE <<s.op, "">>

CallNames(trace) == [i \in 1..Len(trace) |-> CallName(trace[i])]

IsPrefix(a, b) == Len(a) <= Len(b) /\ \A i \in 1..Len(a) : a[i] = b[i]

\* the order a free-form message is to be processed in
FreeFormOrder ==
  << <<"append", "user">>, <<"continueContext", "">>, <<"enforceCopilotRateLimit", "">>,
     <<"generateReply", "">>, <<"append", "assistant">> >>

\* C11: on every free-form path the handler's calls come in the order: user
\* message appended, continuation context fetched, rate limiter, gateway, and
\* after the gateway's success the assistant message appended; a handler run
\* that stops early has made a prefix of that order.
FreeFormCallOrder == IsPrefix(CallNames(hTrace), FreeFormOrder)

\* the latest call of the rate limiter was for this thread and has returned
RateLimitCompletedFor(thread) ==
  /\ rlPc = "idle"
  /\ rlLog # <<>>
  /\ rlLog[Len(rlLog)].thread = thread
  /\ ~rlLog[Len(rlLog)].threw

Override(raw) ==
  CASE raw \in {"/model gpt-x", "/MODEL gpt-x", "/ask --model gpt-x why"} ->
         [field |-> "model", value |-> "gpt-x"]
    [] raw \in {"/model nope", "/ask --model nope why", "/askm nope why"} ->
         [field |-> "model", value |-> "nope"]
    [] raw = "/topic research" -> [field |-> "topic", value |-> "research"]
    [] raw = "/agent coder" -> [field |-> "agent", value |-> "coder"]
    [] OTHER -> [field |-> "", value |-> ""]

\* the three tiers: the command's argument, else the current value, else the default
Resolved(field, current, default) ==
  IF Override(parseIn.raw).field = field THEN Override(parseIn.raw).value
  ELSE IF current # Undefined THEN current
  ELSE default

\* C15: parseTelegramText resolves topic, agent and model each on its own: the
\* argument of the command when the text carries one for that field, otherwise
\* the current value the caller passed, otherwise the configured default.
ThreeTierResolution ==
  (parseOut # NotParsed) =>
     /\ parseOut.topic = Resolved("topic", parseIn.topic, DefaultTopic)
     /\ parseOut.agent = Resolved("agent", parseIn.agent, DefaultAgent)
     /\ parseOut.modelId = Resolved("model", parseIn.modelId, DefaultModel)

\* C15 witness: an ask command with a model override, parsed with a current
\* topic and no current agent: one field from each tier
ThreeTierResolutionWitness ==
  /\ parseOut # NotParsed
  /\ parseIn.raw = "/ask --model gpt-x why"
  /\ parseIn.topic = "research"
  /\ parseIn.agent = Undefined
  /\ parseIn.modelId = Undefined
  /\ parseOut.command = "ask"
  /\ parseOut.topic = "research"
  /\ parseOut.agent = DefaultAgent
  /\ parseOut.modelId = "gpt-x"

\* the usage records written since generateReply was called
WrittenSinceCall == SuffixFrom(usageLog, logAtCall + 1)

NoGatewayWithoutCredential ==
  (~isEnabled) =>
     /\ \A i \in 1..Len(hTrace) : hTrace[i].op # "generateReply"
     /\ hPc # "gen"

\* the step is one of the handler of the current message, which is this command
CommandStep(command) ==
  /\ mainPc = "handler"
  /\ hPc = "message"
  /\ Parsed.command = command
  /\ hPc' # hPc

\* a free-form text is on its way to the gateway
FreeFormAtGateway == hPc = "gen" /\ hPath \in {"default", "vibe"}

\* C13: the model selected for a thread changes only when a /model command
\* for it is accepted, and a free-form message that reaches the gateway is
\* sent with the model selected for its thread, the configured default when
\* none was selected.
SelectedModelHolds ==
  /\ [][ (selectedModel' # selectedModel) =>
           (CommandStep("model") /\ Parsed.modelId \in catalog) ]_vars
  /\ [](FreeFormAtGateway =>
          /\ hModel = GetSelectedModel(CurThread)
          /\ hTrace[Len(hTrace)] = Step("generateReply", CurThread, hModel))

\* the step is a call of copilot.select_model with this id
ToolSelectStep(m) == McpSelectModel(<<1, DefaultTopic>>, m)

\* C14: a model-select request for an id that is not in the catalog changes
\* nothing and is turned down: the /model command leaves the selected models
\* and the messages as they were, makes no store call and ends with its reply;
\* the copilot.select_model tool leaves them as they were and throws.
UnknownModelRejected ==
  /\ [][ (CommandStep("model") /\ Parsed.modelId \notin catalog) =>
           /\ selectedModel' = selectedModel
           /\ messages' = messages
           /\ hTrace' = <<>>
           /\ hPc' = "" ]_vars
  /\ [][ \A m \in ToolModels :
           (ToolSelectStep(m) /\ m \notin catalog) =>
              /\ selectedModel' = selectedModel
              /\ messages' = messages
              /\ toolError' # "" ]_vars

\* the texts of the updates handled so far
HandledTexts == {inbox[i].text : i \in handledSet}

\* C14 witness: after an accepted /model gpt-x, a /model with an unknown id was
\* handled and the tool was called with an unknown id: the thread has its model
\* and the one audit message
UnknownModelRejectedWitness ==
  /\ inbox[1].text = "/model gpt-x"
  /\ inbox[2].text = "/model nope"
  /\ handledSet = {1, 2}
  /\ toolError # ""
  /\ selectedModel = SetSelectedModel(<<1, DefaultTopic>>, "gpt-x")
  /\ Len(messages) = 1

\* the values /language takes
LanguageWords == {"zh", "zh-cn", "cn", "chinese", "en", "en-us", "english"}

\* the command of the current message is one that changes state, and its value is taken
AcceptedMutation ==
  \/ CommandStep("topic")
  \/ CommandStep("agent")
  \/ CommandStep("model") /\ Parsed.modelId \in catalog
  \/ CommandStep("language") /\ Parsed.languageInput \in LanguageWords

\* the system messages the handler run has appended to the thread
AuditAppends(trace, thread) ==
  {i \in 1..Len(trace) : trace[i] = Step("append", thread, "system")}

\* C16: each accepted topic switch, agent switch, model select and language
\* select appends exactly one system message to the thread it affects.
OneAuditMessagePerChange ==
  [][ AcceptedMutation =>
        /\ Cardinality(AuditAppends(hTrace', ParsedThread)) = 1
        /\ messages' # <<>>
        /\ messages'[Len(messages')] =
             Msg(Cur.chat, Parsed.topic, "system", messages'[Len(messages')].content) ]_vars

\* the command of the current message is turned down for its value: an unknown
\* model in /model or in /ask, an unsupported language
RejectedCommand ==
  \/ CommandStep("model") /\ Parsed.modelId \notin catalog
  \/ /\ CommandStep("ask")
     /\ Parsed.askModelId # Undefined
     /\ Parsed.askModelId \notin catalog
  \/ /\ CommandStep("language")
     /\ Parsed.languageInput # Undefined
     /\ Parsed.languageInput \notin LanguageWords

\* C18: a command turned down for its value writes nothing: the topic state,
\* the selected models and the messages stay as they were, no store call is
\* made, and the handler ends with its reply.
RejectedCommandMutatesNothing ==
  [][ RejectedCommand =>
        /\ topicState' = topicState
        /\ selectedModel' = selectedModel
        /\ devVibe' = devVibe
        /\ messages' = messages
        /\ hTrace' = <<>>
        /\ hPc' = "" ]_vars

\* C18 witness: a paper question with an unknown model and an unsupported
\* language were both turned down, the store being as it was at the start
RejectedCommandMutatesNothingWitness ==
  /\ HandledTexts = {"/ask --model nope why", "/language xx"}
  /\ messages = <<>>
  /\ selectedModel = << >>
  /\ DOMAIN topicState = {<<1, DefaultTopic, "active_paper_path">>}

\* the handler of update j threw in the iteration the loop is in
ThrewOn(j) == iterThrew /\ idx <= Len(updates) /\ updates[idx] = j

\* C8: an update whose handling throws does not halt the service: every later
\* update whose own chat can be reached is eventually handled, and the offset
\* eventually passes the update that threw.
ThrowingUpdateDoesNotHalt ==
  \A j \in 1..MaxUpdates : \A i \in 1..MaxUpdates :
    (j < i) =>
      ((ThrewOn(j) /\ arrived >= i /\ inbox[i].chat \notin unreachable)
         ~> (Handled(i) /\ offset > j))

(* ------------------------------------------------------------------ *)
(* C21: the attempt field of the usage record                           *)
(* ------------------------------------------------------------------ *)
\* the usage record of the generateReply call that has just ended
RecordOfCall == usageLog[Len(usageLog)]

\* generateReply has ended after at least one request and has written its record
GrEndedWithRecord ==
  /\ GrEnded
  /\ grOutcome \in {"text", "generation failed"}
  /\ Len(usageLog) > logAtCall

\* C21: the attempt field of the usage record written by generateReply is the
\* number of the last attempt made in that call, for success and failure alike
AttemptFieldIsLastAttempt ==
  GrEndedWithRecord => RecordOfCall.attempt = attemptsMade

(* ------------------------------------------------------------------ *)
(* C22: the total wall-clock budget of generateReply                    *)
(* ------------------------------------------------------------------ *)
\* elapsed time of the running call, Date.now() - startedAt
Elapsed == now - startedAt

\* the budget check before an attempt fails in this step
BudgetCheckFails ==
  /\ grPc = "loop"
  /\ attempt <= maxRetries
  /\ maxTotalWaitMs - Elapsed <= 1500

\* the budget check before a backoff fails in this step: the attempt failed
\* with a retryable error, retries are left, and the sleep would not end in time
BackoffCheckFails ==
  /\ grPc = "fetch"
  /\ grPc' # "returned"
  /\ ~IsNonRetryableMessage(lastError')
  /\ attempt < maxRetries
  /\ (now' - startedAt) + NextBackoff(attempt) >= maxTotalWaitMs

\* C22: generateReply never starts an attempt when the remaining budget is at
\* or below the 1500 ms margin, never starts a backoff sleep that would end at
\* or after maxTotalWaitMs, and when either check fails it sends no further
\* request and raises
TotalBudgetRespected ==
  /\ [](grPc = "fetch" => maxTotalWaitMs - Elapsed > 1500)
  /\ [](grPc = "sleep" => Elapsed + NextBackoff(attempt) < maxTotalWaitMs)
  /\ [][ /\ (BudgetCheckFails \/ BackoffCheckFails) => grPc' = "fail"
         /\ grPc = "fail" => /\ grPc' = "thrown"
                             /\ grOutcome' = "generation failed"
                             /\ attemptsMade' = attemptsMade ]_vars

\* a call that slept within the budget, then found the margin used up before
\* its next attempt, and raised with retries left
TotalBudgetRespectedWitness ==
  /\ grPc = "thrown"
  /\ lastError = MkError("request timeout budget exceeded")
  /\ sleepLog # <<>>
  /\ attemptsMade < maxRetries

(* ------------------------------------------------------------------ *)
(* C23: updates are handled one at a time                                *)
(* ------------------------------------------------------------------ *)
\* the for loop hands an update to its handler in this step
HandlerStarts == mainPc = "loop" /\ mainPc' = "handler"

\* generateReply is entered in this step
GatewayCallStarts == calls' = calls + 1

\* no handler is running: none is waiting on the rate limiter, on the gateway
\* or on a store write
NoHandlerRunning == hPc = "" /\ rlPc = "idle" /\ grPc = "idle"

\* C23: a handler starts only when the handler of the previous update has
\* completed, rate-limit wait, gateway call and store writes included, and a
\* gateway call starts only when none is in flight
OneUpdateAtATime ==
  /\ [][HandlerStarts => NoHandlerRunning]_vars
  /\ [][GatewayCallStarts => grPc = "idle"]_vars
  /\ [](mainPc # "handler" => NoHandlerRunning)

\* the handler of the second update of a batch waits on its gateway call after
\* the handler of the first one made its own and completed
OneUpdateAtATimeWitness ==
  /\ mainPc = "handler"
  /\ idx = 2
  /\ updates[1] \in handledSet
  /\ calls = 2
  /\ hPc = "gen"
  /\ grPc = "fetch"

(* ------------------------------------------------------------------ *)
(* C24: invalid numeric configuration                                    *)
(* ------------------------------------------------------------------ *)
\* C24: with an invalid value of COPILOT_MIN_INTERVAL_MS the process aborts
\* at startup: no update is fetched and no handler runs
InvalidIntervalAbortsAtStartup ==
  MinIntervalInvalid(minIntervalEnv) =>
     /\ polls = 0
     /\ hPc = ""
     /\ handledSet = {}

(* ------------------------------------------------------------------ *)
(* C25: every handled message is answered                                *)
(* ------------------------------------------------------------------ *)
\* the running handler returns or throws in this step
HandlerEnds == mainPc = "handler" /\ mainPc' # "handler"

\* C25: every handler run of a message update has sent at least one message
\* to the chat by the time it ends, also when a step of the handler throws
EveryMessageAnswered ==
  [][(HandlerEnds /\ Cur.kind = "message") => hSent']_vars

(* ------------------------------------------------------------------ *)
(* C26: a thread's history holds its own messages, in call order         *)
(* ------------------------------------------------------------------ *)
\* the numbers of the session.append calls made to a thread, in call order
RECURSIVE AppendsTo(_, _, _)
AppendsTo(trace, chatId, topic) ==
  IF trace = <<>> THEN <<>>
  ELSE AppendsTo(SubSeq(trace, 1, Len(trace) - 1), chatId, topic)
       \o (IF trace[Len(trace)].thread = <<chatId, topic>>
           THEN <<trace[Len(trace)].arg>> ELSE <<>>)

\* the messages are the newest ones appended to the thread, in call order:
\* each was appended to this thread, and they are the last calls made to it
NewestOfThread(h, chatId, topic) ==
  /\ \A i \in 1..Len(h) : InThread(h[i], chatId, topic)
  /\ [i \in 1..Len(h) |-> h[i].content] = LastN(AppendsTo(hTrace, chatId, topic), Len(h))

\* the topics a thread is read by
ThreadTopics == ToolTopics \ {Undefined}

AskWithOverride ==
  /\ mainPc = "handler"
  /\ Cur.kind = "message"
  /\ Parsed.command = "ask"
  /\ Parsed.askModelId # Undefined
  /\ ModelAccepted(Parsed.askModelId)

\* C27: an ask command with a model override that is in the catalog leaves the
\* thread's stored selected model as it was, in every step of its handler, and
\* its gateway call is made with the override
OverrideIsPerRequest ==
  /\ [][AskWithOverride => selectedModel' = selectedModel]_vars
  /\ []((AskWithOverride /\ hPc = "gen")
          => hTrace[Len(hTrace)] = Step("generateReply", ParsedThread, Parsed.askModelId))

\* the gateway call of /askm gpt-x runs while the thread's stored model is
\* another one
OverrideIsPerRequestWitness ==
  /\ AskWithOverride
  /\ Cur.text = "/askm gpt-x why"
  /\ hPc = "gen"
  /\ grPc = "fetch"
  /\ hModel = "gpt-x"
  /\ ParsedThread \in DOMAIN selectedModel
  /\ selectedModel[ParsedThread] = PreferredModel

\* C30: a completion response with status 401 or 403 is never retried: after
\* that attempt generateReply neither sleeps nor sends another request, it goes
\* to the failure path and raises.
AuthFailureNeverRetried ==
  (lastResponse.kind = "http" /\ lastResponse.status \in {401, 403}) =>
     grPc \in {"fail", "thrown"}

\* the call is at the loop test after the backoff that followed a retryable failure
AfterRetryableBackoff ==
  /\ grPc = "loop"
  /\ attemptsMade >= 1
  /\ lastResponse.kind \in {"timeout", "network"}
       \/ (lastResponse.kind = "http" /\ lastResponse.status >= 500)
  /\ ~IsNonRetryableMessage(lastError)

\* an attempt that is not the last failed with a retryable error and the next
\* backoff fits in the remaining budget, with `margin` to spare
RetryableFailureStep(margin) ==
  /\ grPc = "fetch"
  /\ attemptsMade' = attemptsMade + 1
  /\ lastResponse'.kind \in {"timeout", "network"}
       \/ (lastResponse'.kind = "http" /\ lastResponse'.status >= 500)
  /\ ~IsNonRetryableMessage(lastError')
  /\ attempt < maxRetries
  /\ (now' - startedAt) + NextBackoff(attempt) < maxTotalWaitMs - margin

UsageLogNotControlFlow ==
  /\ (lastResponse.kind = "http" /\ IsSuccess(lastResponse)) =>
        (grPc = "returned" /\ grOutcome = "text")
  /\ (grPc = "thrown" /\ attemptsMade > 0) => grOutcome = "generation failed"

\* C33: the backoff slept between attempt k and attempt k+1 is
\* retryBaseMs * 2^(k-1): the base interval after the first failure, doubled
\* after each further one; the sleep after attempt k is the k-th of the call
\* and lasts exactly that long.
BackoffDoubles ==
  /\ [](\A k \in DOMAIN sleepLog : sleepLog[k] = retryBaseMs * 2^(k - 1))
  /\ [](grPc = "sleep" => Len(sleepLog) = attempt /\ attemptsMade = attempt)
  /\ [][grPc = "sleep" => now' - now = retryBaseMs * 2^(attempt - 1)]_vars

\* C33 witness: the call is in its second backoff, twice the base interval
BackoffDoublesWitness ==
  /\ grPc = "sleep"
  /\ attempt = 2
  /\ retryBaseMs = 400
  /\ sleepLog = <<400, 800>>

\* C34: every model id a handler passes to generateReply is, at the time of
\* the call, in the model catalog or the configured default model, also when
\* the thread's stored model has left the catalog.
ModelPassedIsKnown ==
  (mainPc = "handler" /\ hPc = "gen") => (hModel \in catalog \/ hModel = DefaultModel)

\* C35: the vibe-coding flag of a thread is set exactly while the thread's
\* ui_mode is dev_vibe, and a free-form text is handled as vibe coding only in
\* a thread whose ui_mode is dev_vibe.
VibeFlagFollowsUiMode ==
  /\ \A chatId \in {1, 2} :
       (<<chatId, DefaultTopic>> \in devVibe)
         <=> (GetTopicState(chatId, DefaultTopic, "ui_mode") = "dev_vibe")
  /\ (mainPc = "handler" /\ hPath = "vibe")
       => (GetTopicState(Cur.chat, CurTopic, "ui_mode") = "dev_vibe")

\* C36: a callback query from a keyboard message is handled in the topic the
\* keyboard was sent in, whatever the keyboard and whatever the topic.
CallbackInTopicOfKeyboard ==
  [][ \A messageId \in DOMAIN keyboards :
        (callbackTopic' # callbackTopic /\ callbackTopic'.messageId = messageId)
          => callbackTopic'.topic = keyboards[messageId].topic ]_vars

\* C37: from any navigation state, consecutive /back commands bring the
\* thread to the home menu.
BackReachesHome == <>(UiModeOfChat = "home")

\* the handler is about to run the default path of a free-form text
FreeFormStep ==
  /\ mainPc = "handler"
  /\ hPc = "message"
  /\ Parsed.command = ""
  /\ CurThread \notin devVibe

\* C38: a free-form text in a thread whose stored model is the default, as an
\* earlier free-form text of the thread left it, sends no fallback notice and
\* leaves the stored model as it is.
FallbackIsIdempotent ==
  [][ (/\ FreeFormStep
       /\ GetSelectedModel(CurThread) = DefaultModel
       /\ \E i \in DOMAIN messages :
            messages[i] = Msg(Cur.chat, CurTopic, "user", messages[i].content))
      => (hSent' = FALSE /\ GetSelectedModel(CurThread) \in catalog) ]_vars

\* the bodies of the requests the client wrote, and where each frame ends
StreamBodies ==
  CHOOSE bodies \in BodySeqs : \E junk \in {<<>>, JunkBlock} : stream = junk \o Frames(bodies)
FrameEnd(k) == Len(stream) - Len(Frames(SubSeq(StreamBodies, k + 1, Len(StreamBodies))))
\* the requests that have arrived whole
ArrivedFrames == {k \in DOMAIN StreamBodies : FrameEnd(k) <= readPos}

ListingPosition(j) == treePage * DevTreePageSize + j

\* C28: file indices are stable across pages: the files of a listing are
\* numbered 1..k in listing order and directories have no number, and on
\* whichever page an entry is shown, buildDevTreeEntries gives a file the index
\* it has in buildGlobalFileIndexMap of the full listing.
FileIndicesStableAcrossPages ==
  LET map == buildGlobalFileIndexMap(files)
      k == FilesUpTo(files, Len(files))
  IN  /\ {map[p] : p \in DOMAIN map} = 1..k
      /\ \A i \in DOMAIN files :
           IF files[i].isDirectory THEN files[i].relativePath \notin DOMAIN map
           ELSE map[files[i].relativePath] = FilesUpTo(files, i)
      /\ treeShown =>
           /\ Len(treeEntries) =
                Min(DevTreePageSize, Len(files) - treePage * DevTreePageSize)
           /\ \A j \in DOMAIN treeEntries :
                /\ treeEntries[j].relativePath = files[ListingPosition(j)].relativePath
                /\ treeEntries[j].isDirectory = files[ListingPosition(j)].isDirectory
                /\ treeEntries[j].index =
                     IF treeEntries[j].isDirectory THEN 0
                     ELSE map[treeEntries[j].relativePath]

\* C28 witness: the third page of a listing of two directories and six files
\* is shown, and its first entry is the fifth file
FileIndicesStableAcrossPagesWitness ==
  /\ treeShown
  /\ treePage = 2
  /\ Len(files) = 8
  /\ files[1].isDirectory
  /\ ~treeEntries[1].isDirectory
  /\ treeEntries[1].index = 5
  /\ treeEntries[1].relativePath = files[7].relativePath

\* the files of the listing, in listing order
ListedFiles == SelectSeq(files, LAMBDA item : ~item.isDirectory)

\* C29: round trip of the file-index cache: once the tree of a listing has
\* been shown, a '#fileN' reply resolves to the relative path of the N-th file
\* of the listing, and an index that is 0 or not in the listing resolves to
\* undefined.
FileIndexCacheRoundTrip ==
  [][(treeShown /\ fileReply' # fileReply) =>
       fileReply'.filePath =
         IF fileReply'.index \in 1..Len(ListedFiles)
         THEN Text(ListedFiles[fileReply'.index].relativePath)
         ELSE UndefinedText]_vars
====
